---- MODULE Spec2Model ----
(***************************************************************************)
(* The Synacor virtual machine: the interpreter step                       *)
(* (VirtualMachine::operation), the execution controller                   *)
(* (VirtualMachine::run_program) and the channel pair that links the       *)
(* controller to the user interface (thread_interface.rs).                 *)
(*                                                                         *)
(* Words are unsigned 16-bit integers and keep their width: every place    *)
(* where the source truncates, masks or can overflow is modelled as such.  *)
(* Memory is a Rust Vec indexed from 0; Mem(m, i) reads index i.           *)
(***************************************************************************)
EXTENDS Integers, Sequences, FiniteSets, TLC

(***************************************************************************)
(* Bounds of the model.                                                    *)
(***************************************************************************)
\* interpreter steps (calls of operation()) in one run
MaxSteps == 2
\* control messages waiting in the UI -> VM channel
MaxQueue == 1
\* stack depth
MaxStack == 2
\* strings the UI sends in one run
MaxInputs == 2
\* memory length a Wmem may grow the memory to
MaxMemLen == 10
\* calls of operation() in a run of the record and input specifications
MaxRunSteps == 3
\* control messages waiting in the channel in the backlog specification
MaxBacklog == 2

(***************************************************************************)
(* Word arithmetic.                                                        *)
(***************************************************************************)
U16 == 65536
MASK15 == 32767

Min(S) == CHOOSE x \in S : \A y \in S : x <= y

RECURSIVE BitAnd(_, _)
BitAnd(a, b) ==
    IF a = 0 \/ b = 0 THEN 0
    ELSE (a % 2) * (b % 2) + 2 * BitAnd(a \div 2, b \div 2)

RECURSIVE BitOr(_, _)
BitOr(a, b) ==
    IF a = 0 THEN b
    ELSE IF b = 0 THEN a
    ELSE (IF a % 2 = 1 \/ b % 2 = 1 THEN 1 ELSE 0) + 2 * BitOr(a \div 2, b \div 2)

RECURSIVE BitXor(_, _)
BitXor(a, b) ==
    IF a = 0 THEN b
    ELSE IF b = 0 THEN a
    ELSE ((a + b) % 2) + 2 * BitXor(a \div 2, b \div 2)

Mem(m, i) == m[i + 1]

(***************************************************************************)
(* instruction.rs: Operation and ParsedValue.                              *)
(***************************************************************************)
OpNames ==
    << "Halt", "Set", "Push", "Pop", "Eq", "Gt", "Jmp", "Jt", "Jf", "Add",
       "Mult", "Mod", "And", "Or", "Not", "Rmem", "Wmem", "Call", "Ret",
       "Out", "In", "Noop" >>

\* impl From<u16> for Operation
OperationFrom(value) ==
    IF value <= 21 THEN OpNames[value + 1] ELSE "Error"

\* Operation::operands
operands(op) ==
    CASE op \in {"Halt", "Ret", "Noop"} -> 0
      [] op \in {"Push", "Pop", "Jmp", "Call", "Out", "In"} -> 1
      [] op \in {"Set", "Jt", "Jf", "Not", "Rmem", "Wmem"} -> 2
      [] op \in {"Eq", "Gt", "Add", "Mult", "Mod", "And", "Or"} -> 3
      [] OTHER -> 65535

\* impl From<u16> for ParsedValue
ParsedValueFrom(value) ==
    IF value <= 32767 THEN [tag |-> "Literal", v |-> value]
    ELSE IF value <= 32775 THEN [tag |-> "Register", v |-> value - 32768]
    ELSE [tag |-> "Error", v |-> value]

(***************************************************************************)
(* State.                                                                  *)
(***************************************************************************)
VARIABLES
    \* struct VirtualMachine
    memory, registers, stack, program_counter, input_buffer,
    \* locals of run_program
    run_state, delay, tracer, reg_state, instr,
    \* where the VM thread stands in run_program / read_input, and read_input's retval
    vm_at, retval,
    \* the value the last call of operation() returned, and the number of calls
    result, nsteps,
    \* thread_interface.rs: the four channels and the shared flag
    state_incoming, input_incoming, output_outgoing, steps_outgoing, need_input,
    \* the UI thread: where it stands in write_input, and how many strings it sent
    ui_at, ninputs,
    \* ui.rs: the step records and the output characters the UI has taken in
    prog_states, terminal_text,
    \* init_from_file: the bytes of the opened file
    buffer,
    \* static_analysis.rs: the arguments program and additional_starts (<< >> for
    \* None) and the locals of parse_program_and_save,
    \* the lines written to destination_file, where the function stands, and
    \* whether the build checks integer overflow
    sa_program, additional_starts, read_addresses, write_addresses, exec_blocks,
    jump_targets, jump_info,
    block_start, walk_counter, known_labels, current_block, current_address,
    destination_file, sa_at, overflow_checks,
    \* binmod/main.rs: the -s arguments as given, args.segments, the bytes of
    \* the input file, file_data, the segment and the index the loops stand
    \* at, the bytes saved to the destination (<< >> while nothing is saved),
    \* and where main stands
    arguments, segments, input_file, file_data, segment_no, patch_index, saved, bm_at

vmVars == << memory, registers, stack, program_counter, input_buffer >>
ctlVars == << run_state, delay, tracer, reg_state, instr >>
chanVars == << state_incoming, input_incoming, output_outgoing, steps_outgoing, need_input >>
vars == << memory, registers, stack, program_counter, input_buffer,
           run_state, delay, tracer, reg_state, instr, vm_at, retval, result, nsteps,
           state_incoming, input_incoming, output_outgoing, steps_outgoing, need_input,
           ui_at, ninputs, prog_states, terminal_text,
           buffer, sa_program, additional_starts, read_addresses, write_addresses,
           exec_blocks, jump_targets,
           jump_info, block_start, walk_counter, known_labels, current_block,
           current_address, destination_file, sa_at, overflow_checks,
           arguments, segments, input_file, file_data, segment_no, patch_index, saved, bm_at >>
saVars == << sa_program, additional_starts, read_addresses, write_addresses, exec_blocks, jump_targets,
             jump_info, block_start, walk_counter, known_labels, current_block,
             current_address, destination_file, sa_at, overflow_checks >>
bmVars == << arguments, segments, input_file, file_data, segment_no, patch_index, saved, bm_at >>
toolVars == << buffer, saVars, bmVars >>

(***************************************************************************)
(* machine.rs: the interpreter step.  A VM value is the record of the five *)
(* fields; operation() yields the set of outcomes the build can produce    *)
(* (one, except where an overflow check decides between panic and wrap).   *)
(***************************************************************************)
VmState ==
    [ memory |-> memory, registers |-> registers, stack |-> stack,
      program_counter |-> program_counter, input_buffer |-> input_buffer ]

\* VirtualMachine::dereference
dereference(vm, val) ==
    CASE val.tag = "Literal" -> val.v
      [] val.tag = "Register" -> vm.registers[val.v]
      [] OTHER -> val.v % (MASK15 + 1)

\* Ok((current_instruction, operands, to_print))
OkOut(vm, op, ops, ch) ==
    [ vm |-> vm,
      res |-> [ tag |-> "Ok", val |-> 0, op |-> op, operands |-> ops, to_print |-> ch ] ]

\* Err(RuntimeError::<tag>(val))
ErrOut(vm, tag, val) ==
    [ vm |-> vm,
      res |-> [ tag |-> tag, val |-> val, op |-> "", operands |-> << >>, to_print |-> << >> ] ]

\* a panic unwinds the VM thread; the VM value is dropped with it
PanicOut(vm) == ErrOut(vm, "Panic", 0)

SetReg(vm, r, value) == [ vm EXCEPT !.registers[r] = value ]

ExecHalt(vm, ops, old_count) ==
    { ErrOut([ vm EXCEPT !.program_counter = old_count ], "ErrFinished", 0) }

ExecSet(vm, ops, old_count) ==
    CASE ops[1].tag = "Literal" -> { ErrOut(vm, "ErrRegisterExpected", 0) }
      [] ops[1].tag = "Register" ->
            { OkOut(SetReg(vm, ops[1].v, dereference(vm, ops[2])), "Set", ops, << >>) }
      [] OTHER -> { ErrOut(vm, "ErrUnknownOperand", ops[1].v) }

\* ExecPush with the value put under the stack instead of on top of it
ExecPushUnder(vm, ops, old_count) ==
    CASE ops[1].tag = "Literal" ->
            { OkOut([ vm EXCEPT !.stack = << ops[1].v >> \o @ ], "Push", ops, << >>) }
      [] ops[1].tag = "Register" ->
            { OkOut([ vm EXCEPT !.stack = << vm.registers[ops[1].v] >> \o @ ], "Push", ops, << >>) }
      [] OTHER -> { ErrOut(vm, "ErrUnknownOperand", ops[1].v) }

ExecPush(vm, ops, old_count) ==
    CASE ops[1].tag = "Literal" ->
            { OkOut([ vm EXCEPT !.stack = Append(@, ops[1].v) ], "Push", ops, << >>) }
      [] ops[1].tag = "Register" ->
            { OkOut([ vm EXCEPT !.stack = Append(@, vm.registers[ops[1].v]) ], "Push", ops, << >>) }
      [] OTHER -> { ErrOut(vm, "ErrUnknownOperand", ops[1].v) }

\* ExecPop with the register written before the emptiness test
ExecPopWritesFirst(vm, ops, old_count) ==
    CASE ops[1].tag = "Register" ->
            IF Len(vm.stack) > 0
            THEN { OkOut([ SetReg(vm, ops[1].v, vm.stack[Len(vm.stack)] % (MASK15 + 1))
                             EXCEPT !.stack = SubSeq(vm.stack, 1, Len(vm.stack) - 1) ],
                         "Pop", ops, << >>) }
            ELSE { ErrOut(SetReg(vm, ops[1].v, 0), "ErrStackEmpty", 0) }
      [] OTHER -> { ErrOut(vm, "ErrUnknownOperand", ops[1].v) }

ExecPop(vm, ops, old_count) ==
    CASE ops[1].tag = "Register" ->
            IF Len(vm.stack) > 0
            THEN { OkOut([ SetReg(vm, ops[1].v, vm.stack[Len(vm.stack)] % (MASK15 + 1))
                             EXCEPT !.stack = SubSeq(vm.stack, 1, Len(vm.stack) - 1) ],
                         "Pop", ops, << >>) }
            ELSE { ErrOut(vm, "ErrStackEmpty", 0) }
      [] OTHER -> { ErrOut(vm, "ErrUnknownOperand", ops[1].v) }

ExecEq(vm, ops, old_count) ==
    IF ops[1].tag = "Register"
    THEN { OkOut(SetReg(vm, ops[1].v,
                        IF dereference(vm, ops[2]) = dereference(vm, ops[3]) THEN 1 ELSE 0),
                 "Eq", ops, << >>) }
    ELSE { ErrOut(vm, "ErrRegisterExpected", 0) }

ExecGt(vm, ops, old_count) ==
    IF ops[1].tag = "Register"
    THEN { OkOut(SetReg(vm, ops[1].v,
                        IF dereference(vm, ops[2]) > dereference(vm, ops[3]) THEN 1 ELSE 0),
                 "Gt", ops, << >>) }
    ELSE { OkOut(vm, "Gt", ops, << >>) }

ExecJmp(vm, ops, old_count) ==
    { OkOut([ vm EXCEPT !.program_counter = dereference(vm, ops[1]) ], "Jmp", ops, << >>) }

ExecJt(vm, ops, old_count) ==
    IF dereference(vm, ops[1]) # 0
    THEN { OkOut([ vm EXCEPT !.program_counter = dereference(vm, ops[2]) ], "Jt", ops, << >>) }
    ELSE { OkOut(vm, "Jt", ops, << >>) }

ExecJf(vm, ops, old_count) ==
    IF dereference(vm, ops[1]) = 0
    THEN { OkOut([ vm EXCEPT !.program_counter = dereference(vm, ops[2]) ], "Jf", ops, << >>) }
    ELSE { OkOut(vm, "Jf", ops, << >>) }

\* ExecAdd with the sum stored unmasked
ExecAddUnmasked(vm, ops, old_count) ==
    IF ops[1].tag = "Register"
    THEN { OkOut(SetReg(vm, ops[1].v,
                        (dereference(vm, ops[2]) + dereference(vm, ops[3])) % U16),
                 "Add", ops, << >>) }
    ELSE { ErrOut(vm, "ErrRegisterExpected", 0) }

\* b + c is a u16 addition: with overflow checks it panics, without it wraps
ExecAdd(vm, ops, old_count) ==
    IF ops[1].tag = "Register"
    THEN LET b == dereference(vm, ops[2])
             c == dereference(vm, ops[3])
             wrapped == OkOut(SetReg(vm, ops[1].v, ((b + c) % U16) % (MASK15 + 1)),
                              "Add", ops, << >>)
         IN  IF b + c >= U16 THEN { PanicOut(vm), wrapped } ELSE { wrapped }
    ELSE { ErrOut(vm, "ErrRegisterExpected", 0) }

\* (b * c) as u16 for b, c < 2^16: the low 16 bits of the u32 product, taken
\* from the two byte halves of b so that no intermediate exceeds 2^31
MulLow16(b, c) ==
    ((b % 256) * c + (((b \div 256) * c) % 256) * 256) % U16

\* the product is computed in u32, cast to u16, then masked
ExecMult(vm, ops, old_count) ==
    IF ops[1].tag = "Register"
    THEN LET b == dereference(vm, ops[2])
             c == dereference(vm, ops[3])
         IN  { OkOut(SetReg(vm, ops[1].v, MulLow16(b, c) % (MASK15 + 1)), "Mult", ops, << >>) }
    ELSE { ErrOut(vm, "ErrRegisterExpected", 0) }

\* b % c panics on c = 0
ExecMod(vm, ops, old_count) ==
    IF ops[1].tag = "Register"
    THEN LET b == dereference(vm, ops[2])
             c == dereference(vm, ops[3])
         IN  IF c = 0 THEN { PanicOut(vm) }
             ELSE { OkOut(SetReg(vm, ops[1].v, b % c), "Mod", ops, << >>) }
    ELSE { ErrOut(vm, "ErrRegisterExpected", 0) }

ExecAnd(vm, ops, old_count) ==
    IF ops[1].tag = "Register"
    THEN { OkOut(SetReg(vm, ops[1].v, BitAnd(dereference(vm, ops[2]), dereference(vm, ops[3]))),
                 "And", ops, << >>) }
    ELSE { ErrOut(vm, "ErrRegisterExpected", 0) }

ExecOr(vm, ops, old_count) ==
    IF ops[1].tag = "Register"
    THEN { OkOut(SetReg(vm, ops[1].v, BitOr(dereference(vm, ops[2]), dereference(vm, ops[3]))),
                 "Or", ops, << >>) }
    ELSE { ErrOut(vm, "ErrRegisterExpected", 0) }

ExecNot(vm, ops, old_count) ==
    IF ops[1].tag = "Register"
    THEN { OkOut(SetReg(vm, ops[1].v, BitXor(dereference(vm, ops[2]), MASK15)), "Not", ops, << >>) }
    ELSE { ErrOut(vm, "ErrRegisterExpected", 0) }

\* the guard compares the length (cast to u16) with b using >=, then indexes
ExecRmem(vm, ops, old_count) ==
    IF ops[1].tag = "Register"
    THEN LET b == dereference(vm, ops[2])
         IN  IF Len(vm.memory) % U16 >= b
             THEN IF b < Len(vm.memory)
                  THEN { OkOut(SetReg(vm, ops[1].v, Mem(vm.memory, b)), "Rmem", ops, << >>) }
                  ELSE { PanicOut(vm) }
             ELSE { OkOut(SetReg(vm, ops[1].v, 0), "Rmem", ops, << >>) }
    ELSE { ErrOut(vm, "ErrRegisterExpected", 0) }

Resize(m, n) ==
    [ i \in 1..n |-> IF i <= Len(m) THEN m[i] ELSE 0 ]

\* the guard resizes only when the length is below a; a + 1 is a u16 addition
ExecWmem(vm, ops, old_count) ==
    LET a == dereference(vm, ops[1])
        b == dereference(vm, ops[2])
        grown == IF Len(vm.memory) < a THEN Resize(vm.memory, (a + 1) % U16) ELSE vm.memory
    IN  IF Len(vm.memory) < a /\ a + 1 >= U16 THEN { PanicOut(vm) }
        ELSE IF a < Len(grown)
             THEN { OkOut([ vm EXCEPT !.memory = [ grown EXCEPT ![a + 1] = b ] ],
                          "Wmem", ops, << >>) }
             ELSE { PanicOut(vm) }

\* ExecCall with the address of the Call itself pushed
ExecCallPushesOld(vm, ops, old_count) ==
    IF ops[1].tag = "Error"
    THEN { ErrOut(vm, "ErrUnknownOperand", ops[1].v) }
    ELSE { OkOut([ vm EXCEPT !.stack = Append(@, old_count),
                             !.program_counter = dereference(vm, ops[1]) ],
                 "Call", ops, << >>) }

ExecCall(vm, ops, old_count) ==
    IF ops[1].tag = "Error"
    THEN { ErrOut(vm, "ErrUnknownOperand", ops[1].v) }
    ELSE { OkOut([ vm EXCEPT !.stack = Append(@, vm.program_counter),
                             !.program_counter = dereference(vm, ops[1]) ],
                 "Call", ops, << >>) }

ExecRet(vm, ops, old_count) ==
    IF Len(vm.stack) > 0
    THEN { OkOut([ vm EXCEPT !.program_counter = vm.stack[Len(vm.stack)],
                             !.stack = SubSeq(vm.stack, 1, Len(vm.stack) - 1) ],
                 "Ret", ops, << >>) }
    ELSE { ErrOut(vm, "ErrStackEmpty", 0) }

\* char::from_u32 rejects the surrogate range; unwrap_or gives U+FFFD
ExecOut(vm, ops, old_count) ==
    LET x == dereference(vm, ops[1])
        print_char == IF x >= 55296 /\ x <= 57343 THEN 65533 ELSE x
    IN  { OkOut(vm, "Out", ops, << print_char >>) }

\* ExecIn without the rewind of the program counter on an empty buffer
ExecInKeepsAdvance(vm, ops, old_count) ==
    IF ops[1].tag = "Literal"
    THEN { ErrOut(vm, "ErrRegisterExpected", 0) }
    ELSE IF Len(vm.input_buffer) > 0
         THEN { OkOut([ SetReg(vm, ops[1].v, vm.input_buffer[Len(vm.input_buffer)])
                          EXCEPT !.input_buffer = SubSeq(vm.input_buffer, 1, Len(vm.input_buffer) - 1) ],
                      "In", ops, << >>) }
         ELSE { ErrOut(vm, "ErrInputEmpty", 0) }

ExecIn(vm, ops, old_count) ==
    IF ops[1].tag = "Literal"
    THEN { ErrOut(vm, "ErrRegisterExpected", 0) }
    ELSE LET register_number == IF ops[1].tag = "Register" THEN ops[1].v ELSE 255
             n == Len(vm.input_buffer)
         IN  IF n > 0
             THEN IF register_number <= 7
                  THEN { OkOut([ SetReg(vm, register_number, vm.input_buffer[n])
                                   EXCEPT !.input_buffer = SubSeq(vm.input_buffer, 1, n - 1) ],
                               "In", ops, << >>) }
                  ELSE { PanicOut(vm) }
             ELSE { ErrOut([ vm EXCEPT !.program_counter = old_count ], "ErrInputEmpty", 0) }

ExecNoop(vm, ops, old_count) ==
    { OkOut(vm, "Noop", ops, << >>) }

ExecError(vm, ops, old_count) ==
    { ErrOut(vm, "ErrUnknownOperation", Mem(vm.memory, old_count)) }

\* match current_instruction { ... }
Execute(op, vm, ops, old_count) ==
    CASE op = "Halt" -> ExecHalt(vm, ops, old_count)
      [] op = "Set"  -> ExecSet(vm, ops, old_count)
      [] op = "Push" -> ExecPush(vm, ops, old_count)
      [] op = "Pop"  -> ExecPop(vm, ops, old_count)
      [] op = "Eq"   -> ExecEq(vm, ops, old_count)
      [] op = "Gt"   -> ExecGt(vm, ops, old_count)
      [] op = "Jmp"  -> ExecJmp(vm, ops, old_count)
      [] op = "Jt"   -> ExecJt(vm, ops, old_count)
      [] op = "Jf"   -> ExecJf(vm, ops, old_count)
      [] op = "Add"  -> ExecAdd(vm, ops, old_count)
      [] op = "Mult" -> ExecMult(vm, ops, old_count)
      [] op = "Mod"  -> ExecMod(vm, ops, old_count)
      [] op = "And"  -> ExecAnd(vm, ops, old_count)
      [] op = "Or"   -> ExecOr(vm, ops, old_count)
      [] op = "Not"  -> ExecNot(vm, ops, old_count)
      [] op = "Rmem" -> ExecRmem(vm, ops, old_count)
      [] op = "Wmem" -> ExecWmem(vm, ops, old_count)
      [] op = "Call" -> ExecCall(vm, ops, old_count)
      [] op = "Ret"  -> ExecRet(vm, ops, old_count)
      [] op = "Out"  -> ExecOut(vm, ops, old_count)
      [] op = "In"   -> ExecIn(vm, ops, old_count)
      [] op = "Noop" -> ExecNoop(vm, ops, old_count)
      [] OTHER       -> ExecError(vm, ops, old_count)

\* the decode loop: the first operand index that is outside memory (a panic) or
\* holds an Error word (an early return); 0 when the loop runs to its end
FirstBadOperand(vm, old_count, argcount) ==
    LET last == IF old_count + argcount < Len(vm.memory)
                THEN old_count + argcount ELSE Len(vm.memory)
        bad == { x \in (old_count + 1)..last :
                    x >= Len(vm.memory) \/ ParsedValueFrom(Mem(vm.memory, x)).tag = "Error" }
    IN  IF bad = {} THEN 0 ELSE Min(bad)

\* Advance without the opcode word
AdvanceOperandsOnly(old_count, argcount) == old_count + argcount

\* what the program counter becomes once the operands are decoded
Advance(old_count, argcount) == old_count + argcount + 1

\* VirtualMachine::operation
operation(vm) ==
    IF vm.program_counter >= Len(vm.memory) THEN { PanicOut(vm) }
    ELSE LET old_count == vm.program_counter
             current_instruction == OperationFrom(Mem(vm.memory, old_count))
             argcount == operands(current_instruction)
             stop == FirstBadOperand(vm, old_count, argcount)
         IN  IF stop # 0
             THEN IF stop >= Len(vm.memory) THEN { PanicOut(vm) }
                  ELSE { ErrOut(vm, "ErrUnknownOperand", Mem(vm.memory, stop)) }
             ELSE LET ops == [ i \in 1..argcount |-> ParsedValueFrom(Mem(vm.memory, old_count + i)) ]
                      advanced == [ vm EXCEPT !.program_counter = Advance(old_count, argcount) ]
                  IN  Execute(current_instruction, advanced, ops, old_count)

\* register_snapshot with the program counter of the following word
register_snapshot_next(vm) ==
    [ registers |-> vm.registers, stack_depth |-> Len(vm.stack),
      program_counter |-> (vm.program_counter + 1) % U16 ]

\* VirtualMachine::register_snapshot
register_snapshot(vm) ==
    [ registers |-> vm.registers, stack_depth |-> Len(vm.stack),
      program_counter |-> vm.program_counter % U16 ]

(***************************************************************************)
(* machine.rs: the execution controller, run_program.                      *)
(***************************************************************************)
Running == [ tag |-> "Running", n |-> 0 ]
Paused == [ tag |-> "Paused", n |-> 0 ]
PauseAfterSteps(n) == [ tag |-> "PauseAfterSteps", n |-> n ]
PauseAfterAddress(addr) == [ tag |-> "PauseAfterAddress", n |-> addr ]
Terminated == [ tag |-> "Terminated", n |-> 0 ]

\* a control message; a and b are its arguments (0 where it has none)
Msg(type, a, b) == [ a |-> a, b |-> b, type |-> type ]

\* impl Display for Operation
Mnemonic(op) ==
    CASE op = "Halt" -> "HALT" [] op = "Set" -> "SET " [] op = "Push" -> "PUSH"
      [] op = "Pop" -> "POP " [] op = "Eq" -> "EQ  " [] op = "Gt" -> "GT  "
      [] op = "Jmp" -> "JMP " [] op = "Jt" -> "JT  " [] op = "Jf" -> "JF  "
      [] op = "Add" -> "ADD " [] op = "Mult" -> "MULT" [] op = "Mod" -> "MOD "
      [] op = "And" -> "AND " [] op = "Or" -> "OR  " [] op = "Not" -> "NOT "
      [] op = "Rmem" -> "RMEM" [] op = "Wmem" -> "WMEM" [] op = "Call" -> "CALL"
      [] op = "Ret" -> "RET " [] op = "Out" -> "OUT " [] op = "In" -> "IN  "
      [] op = "Noop" -> "NOOP" [] OTHER -> "!?!?"

\* ProgramStep::step; the instruction text is the mnemonic followed by the operands
ProgramStep(snapshot, text) == [ registers |-> snapshot, instruction |-> text ]

Repr(res) == << Mnemonic(res.op) >> \o res.operands

\* let must_block = match run_state { ... }
must_block(rs) ==
    CASE rs.tag = "Running" -> FALSE
      [] rs.tag = "Paused" -> TRUE
      [] rs.tag = "PauseAfterSteps" -> rs.n = 0
      [] OTHER -> FALSE

\* VirtualMachine::dump_memory_to_file: TRUE when the walk over memory completes,
\* FALSE when the slice memory[index..=(wordcount + index)] reaches past the end
RECURSIVE DumpCompletes(_, _)
DumpCompletes(m, index) ==
    IF index >= Len(m) THEN TRUE
    ELSE LET value == OperationFrom(Mem(m, index))
         IN  IF value = "Error" THEN DumpCompletes(m, index + 1)
             ELSE IF 1 + operands(value) + index >= Len(m) THEN FALSE
             ELSE DumpCompletes(m, index + 1 + operands(value))

\* match instruction { ... }: the run-state a message leaves
MsgRunState(m, rs) ==
    CASE m.type = "Run" -> Running
      [] m.type = "Pause" -> Paused
      [] m.type = "SingleStep" -> PauseAfterSteps(1)
      [] m.type = "RunForSteps" -> PauseAfterSteps(m.a)
      [] m.type = "RunUntilAddress" -> PauseAfterAddress(m.a)
      [] m.type = "SetCommandDelay" -> IF m.b = 1 THEN Paused ELSE rs
      [] OTHER -> rs

\* Some(SetRegister(reg, value))
MsgRegisters(m, regs) ==
    IF m.type = "SetRegister" /\ m.a <= 7 THEN [ regs EXCEPT ![m.a] = m.b ] ELSE regs

\* Some(SetProgramCounter(addr))
MsgProgramCounter(m, pc) ==
    IF m.type = "SetProgramCounter" THEN m.a ELSE pc

\* MsgGoes with Terminate falling through to the step instead of `break`
MsgGoesPastTerminate(m, mem) ==
    CASE m.type \in {"Pause", "SetCommandDelay", "SetProgramCounter", "SetRegister"} -> "poll"
      [] m.type = "Toggle" -> "panicked"
      [] m.type = "SaveMemory" ->
            IF m.a = 1 /\ DumpCompletes(mem, 0) THEN "poll" ELSE "panicked"
      [] m.type = "TraceOperations" -> IF m.a = 1 THEN "exec" ELSE "panicked"
      [] OTHER -> "exec"

\* where the loop goes after the message: `continue` (the next poll), `break`,
\* a panic (todo!, expect, panic!), or on to the snapshot and the step.
\* For SaveMemory and TraceOperations m.a = 1 says the path can be opened.
MsgGoes(m, mem) ==
    CASE m.type \in {"Pause", "SetCommandDelay", "SetProgramCounter", "SetRegister"} -> "poll"
      [] m.type = "Terminate" -> "exited"
      [] m.type = "Toggle" -> "panicked"
      [] m.type = "SaveMemory" ->
            IF m.a = 1 /\ DumpCompletes(mem, 0) THEN "poll" ELSE "panicked"
      [] m.type = "TraceOperations" -> IF m.a = 1 THEN "exec" ELSE "panicked"
      [] OTHER -> "exec"

MsgTracer(m, t) ==
    CASE m.type = "TraceOperations" -> (m.a = 1)
      [] m.type = "TraceStop" -> FALSE
      [] OTHER -> t

\* ResultRunState without the transition to Terminated
ResultRunStateKeeps(res, rs) == rs

\* ResultRunState with Halt leaving the controller Paused
ResultRunStatePauses(res, rs) ==
    IF res.tag = "ErrFinished" THEN Paused ELSE rs

\* the run-state after the match on the step's result
ResultRunState(res, rs) ==
    IF res.tag = "ErrFinished" THEN Terminated ELSE rs

\* match &run_state { ... } after the step: the set of (run-state, next position)
\* pairs; instr_start + operands() is a u16 addition (panic or wrap)
RunStateUpdate(rs, snapshot, word) ==
    CASE rs.tag = "Running" -> { << rs, "poll" >> }
      [] rs.tag = "Paused" -> { << rs, "poll" >> }
      [] rs.tag = "PauseAfterSteps" ->
            IF rs.n <= 1 THEN { << rs, "poll" >> }
            ELSE { << PauseAfterSteps(rs.n - 1), "poll" >> }
      [] rs.tag = "PauseAfterAddress" ->
            LET addr == rs.n % U16
                instr_start == snapshot.program_counter
                sum == instr_start + operands(OperationFrom(word))
                instr_stop == sum % U16
                wrapped == IF instr_start >= addr /\ addr < instr_stop
                           THEN << Paused, "poll" >> ELSE << rs, "poll" >>
            IN  IF sum >= U16 THEN { << rs, "panicked" >>, wrapped } ELSE { wrapped }
      [] OTHER -> { << rs, "exited" >> }

\* the top of the loop: read_state(must_block) and the match on the message
RecvMessage ==
    /\ vm_at = "poll"
    /\ run_state.tag # "Terminated"
    /\ state_incoming # << >>
    /\ LET m == Head(state_incoming)
       IN  /\ state_incoming' = Tail(state_incoming)
           /\ run_state' = MsgRunState(m, run_state)
           /\ delay' = IF m.type = "SetCommandDelay" THEN m.a ELSE delay
           /\ tracer' = MsgTracer(m, tracer)
           /\ registers' = MsgRegisters(m, registers)
           /\ program_counter' = MsgProgramCounter(m, program_counter)
           /\ vm_at' = MsgGoes(m, memory)
    /\ UNCHANGED << toolVars, memory, stack, input_buffer, reg_state, instr, retval, result, nsteps,
                    input_incoming, output_outgoing, steps_outgoing, need_input,
                    ui_at, ninputs, prog_states, terminal_text >>

\* read_state(false) finds the channel empty: instruction = None
PollNone ==
    /\ vm_at = "poll"
    /\ run_state.tag # "Terminated"
    /\ state_incoming = << >>
    /\ ~must_block(run_state)
    /\ vm_at' = "exec"
    /\ UNCHANGED << toolVars, vmVars, ctlVars, chanVars, retval, result, nsteps, ui_at, ninputs, prog_states, terminal_text >>

\* OutputPosition with the character of an Out never sent
OutputPositionSkips(res, next) == next

\* if let Some(to_print) = to_print { write_output(to_print) }: where the VM
\* thread stands once the step's record is sent
OutputPosition(res, next) ==
    IF res.to_print # << >> /\ next = "poll" THEN "write_output" ELSE next

\* the snapshot, the step, the sending of its record, the match on its result
\* and the run-state update.  The character of an Out is sent after the record
\* by write_output below; the run-state match that follows it in the source
\* touches only locals of the VM thread and is taken here.
StepWithin(limit) ==
    /\ vm_at = "exec"
    /\ nsteps < limit
    /\ LET snapshot == register_snapshot(VmState)
       IN  /\ reg_state' = snapshot
           /\ IF snapshot.program_counter >= Len(memory)
              THEN /\ vm_at' = "panicked"
                   /\ UNCHANGED << vmVars, run_state, instr, result, nsteps,
                                   steps_outgoing, output_outgoing >>
              ELSE /\ instr' = Mem(memory, snapshot.program_counter)
                   /\ nsteps' = nsteps + 1
                   /\ \E o \in operation(VmState) :
                        /\ Len(o.vm.stack) <= MaxStack
                        /\ Len(o.vm.memory) <= MaxMemLen
                        /\ result' = o.res
                        /\ IF o.res.tag = "Panic"
                           THEN /\ vm_at' = "panicked"
                                /\ UNCHANGED << vmVars, run_state, steps_outgoing, output_outgoing >>
                           ELSE /\ memory' = o.vm.memory
                                /\ registers' = o.vm.registers
                                /\ stack' = o.vm.stack
                                /\ program_counter' = o.vm.program_counter
                                /\ input_buffer' = o.vm.input_buffer
                                /\ steps_outgoing' =
                                     CASE o.res.tag = "Ok" ->
                                            Append(steps_outgoing, ProgramStep(snapshot, Repr(o.res)))
                                       [] o.res.tag = "ErrFinished" ->
                                            Append(steps_outgoing, ProgramStep(snapshot, << "HALT" >>))
                                       [] OTHER -> steps_outgoing
                                /\ UNCHANGED output_outgoing
                                /\ IF o.res.tag = "ErrInputEmpty"
                                   THEN /\ vm_at' = "read_input"
                                        /\ UNCHANGED run_state
                                   ELSE \E u \in RunStateUpdate(ResultRunState(o.res, run_state),
                                                                snapshot,
                                                                Mem(memory, snapshot.program_counter)) :
                                            /\ run_state' = u[1]
                                            /\ vm_at' = OutputPosition(o.res, u[2])
    /\ UNCHANGED << toolVars, delay, tracer, retval, state_incoming, input_incoming, need_input,
                    ui_at, ninputs, prog_states, terminal_text >>

Step == StepWithin(MaxSteps)

\* ThreadVmInterface::write_output, called with the character of the Out
\* whose record has just been sent
write_output ==
    /\ vm_at = "write_output"
    /\ output_outgoing' = output_outgoing \o result.to_print
    /\ vm_at' = "poll"
    /\ UNCHANGED << toolVars, vmVars, ctlVars, retval, result, nsteps, state_incoming, input_incoming,
                    steps_outgoing, need_input, ui_at, ninputs, prog_states, terminal_text >>

(***************************************************************************)
(* thread_interface.rs: ThreadVmInterface::read_input, statement by        *)
(* statement, and the end of the loop iteration that called it.            *)
(***************************************************************************)
RECURSIVE Reverse(_)
Reverse(q) == IF q = << >> THEN << >> ELSE Append(Reverse(Tail(q)), Head(q))

\* StagedInput without the reversal
StagedInputUnreversed(str) ==
    SelectSeq(str, LAMBDA ch : ch < 128)

\* .chars().filter(|ch| ch.is_ascii()).map(|ch| (ch as u64 & 0x7f) as u16).rev()
StagedInput(str) ==
    Reverse(SelectSeq(str, LAMBDA ch : ch < 128))

\* ReadInputClear with the strings in the channel left where they are
ReadInputClearKeeps ==
    /\ vm_at = "read_input"
    /\ vm_at' = "raise"
    /\ UNCHANGED << toolVars, vmVars, ctlVars, retval, result, nsteps, state_incoming, input_incoming,
                    output_outgoing, steps_outgoing, need_input, ui_at, ninputs,
                    prog_states, terminal_text >>

\* while let Some(x) = clearing.next() { drop(x) }
ReadInputClear ==
    /\ vm_at = "read_input"
    /\ IF input_incoming # << >>
       THEN /\ input_incoming' = Tail(input_incoming)
            /\ UNCHANGED vm_at
       ELSE /\ vm_at' = "raise"
            /\ UNCHANGED input_incoming
    /\ UNCHANGED << toolVars, vmVars, ctlVars, retval, result, nsteps, state_incoming,
                    output_outgoing, steps_outgoing, need_input, ui_at, ninputs, prog_states, terminal_text >>

\* self.need_input.store(true, Ordering::Relaxed)
ReadInputRaise ==
    /\ vm_at = "raise"
    /\ need_input' = TRUE
    /\ vm_at' = "recv"
    /\ UNCHANGED << toolVars, vmVars, ctlVars, retval, result, nsteps, state_incoming,
                    input_incoming, output_outgoing, steps_outgoing, ui_at, ninputs, prog_states, terminal_text >>

\* let input = self.input_incoming.recv()
ReadInputRecv ==
    /\ vm_at = "recv"
    /\ input_incoming # << >>
    /\ retval' = Head(input_incoming)
    /\ input_incoming' = Tail(input_incoming)
    /\ vm_at' = "extend"
    /\ UNCHANGED << toolVars, vmVars, ctlVars, result, nsteps, state_incoming,
                    output_outgoing, steps_outgoing, need_input, ui_at, ninputs, prog_states, terminal_text >>

\* retval.extend(self.input_incoming.try_iter()); then, back in run_program,
\* input_buffer.extend(...) and the run-state update that ends the iteration
ReadInputExtend ==
    /\ vm_at = "extend"
    /\ IF input_incoming # << >>
       THEN /\ retval' = retval \o Head(input_incoming)
            /\ input_incoming' = Tail(input_incoming)
            /\ UNCHANGED << vm_at, input_buffer, run_state >>
       ELSE /\ input_buffer' = input_buffer \o StagedInput(retval)
            /\ retval' = << >>
            /\ \E u \in RunStateUpdate(run_state, reg_state, instr) :
                    /\ run_state' = u[1]
                    /\ vm_at' = u[2]
            /\ UNCHANGED input_incoming
    /\ UNCHANGED << toolVars, memory, registers, stack, program_counter, delay, tracer, reg_state,
                    instr, result, nsteps, state_incoming, output_outgoing, steps_outgoing,
                    need_input, ui_at, ninputs, prog_states, terminal_text >>

(***************************************************************************)
(* thread_interface.rs: the UI endpoint.                                   *)
(***************************************************************************)
\* the VM thread owns the receiving ends; they are dropped when it ends
VmAlive == vm_at \notin {"exited", "panicked"}

\* ThreadUiInterface::write_state, with at most `limit` messages waiting
write_state_within(m, limit) ==
    /\ VmAlive
    /\ Len(state_incoming) < limit
    /\ state_incoming' = Append(state_incoming, m)
    /\ UNCHANGED << toolVars, vmVars, ctlVars, vm_at, retval, result, nsteps, input_incoming,
                    output_outgoing, steps_outgoing, need_input, ui_at, ninputs, prog_states, terminal_text >>

write_state(m) == write_state_within(m, MaxQueue)

\* ui.rs main_loop: need_input() is seen true and the input field opens
UiOpenField ==
    /\ ui_at = "Normal"
    /\ need_input
    /\ ui_at' = "Field"
    /\ UNCHANGED << toolVars, vmVars, ctlVars, chanVars, vm_at, retval, result, nsteps, ninputs,
                    prog_states, terminal_text >>

\* ThreadUiInterface::write_input: self.input_outgoing.send(String::from(input))
write_input_send(str) ==
    /\ ui_at = "Field"
    /\ VmAlive
    /\ ninputs < MaxInputs
    /\ input_incoming' = Append(input_incoming, str)
    /\ ninputs' = ninputs + 1
    /\ ui_at' = "Lower"
    /\ UNCHANGED << toolVars, vmVars, ctlVars, vm_at, retval, result, nsteps, state_incoming,
                    output_outgoing, steps_outgoing, need_input, prog_states, terminal_text >>

\* ThreadUiInterface::write_input called without an input field having been
\* opened: the endpoint sends whatever the flag says
write_input_unasked(str) ==
    /\ ui_at = "Normal"
    /\ VmAlive
    /\ ninputs < MaxInputs
    /\ input_incoming' = Append(input_incoming, str)
    /\ ninputs' = ninputs + 1
    /\ ui_at' = "Lower"
    /\ UNCHANGED << toolVars, vmVars, ctlVars, vm_at, retval, result, nsteps, state_incoming,
                    output_outgoing, steps_outgoing, need_input, prog_states, terminal_text >>

\* ThreadUiInterface::write_input: self.need_input.store(false, Ordering::Relaxed)
write_input_lower ==
    /\ ui_at = "Lower"
    /\ need_input' = FALSE
    /\ ui_at' = "Normal"
    /\ UNCHANGED << toolVars, vmVars, ctlVars, vm_at, retval, result, nsteps, state_incoming,
                    input_incoming, output_outgoing, steps_outgoing, ninputs,
                    prog_states, terminal_text >>

\* read_steps with the newest batch put in front of the records already held
read_steps_prepends ==
    /\ steps_outgoing # << >>
    /\ prog_states' = steps_outgoing \o prog_states
    /\ steps_outgoing' = << >>
    /\ UNCHANGED << toolVars, vmVars, ctlVars, vm_at, retval, result, nsteps, state_incoming,
                    input_incoming, output_outgoing, need_input, ui_at, ninputs,
                    terminal_text >>

\* ui.rs main_loop: self.prog_states.extend(self.vm_channel.read_steps()),
\* read_steps being Vec::from_iter(self.steps_incoming.try_iter())
read_steps ==
    /\ steps_outgoing # << >>
    /\ prog_states' = prog_states \o steps_outgoing
    /\ steps_outgoing' = << >>
    /\ UNCHANGED << toolVars, vmVars, ctlVars, vm_at, retval, result, nsteps, state_incoming,
                    input_incoming, output_outgoing, need_input, ui_at, ninputs,
                    terminal_text >>

\* ui.rs main_loop: read_output() is String::from_iter(try_iter()), handed to
\* prep_string_input when it is not empty
read_output ==
    /\ output_outgoing # << >>
    /\ terminal_text' = terminal_text \o output_outgoing
    /\ output_outgoing' = << >>
    /\ UNCHANGED << toolVars, vmVars, ctlVars, vm_at, retval, result, nsteps, state_incoming,
                    input_incoming, steps_outgoing, need_input, ui_at, ninputs,
                    prog_states >>

(***************************************************************************)
(* Programs and inputs.                                                    *)
(***************************************************************************)
\* the word that names register r; RegisterWord(8) is the first word that is
\* neither a literal nor a register
RegisterWord(r) == 32768 + r
R0 == RegisterWord(0)
R1 == RegisterWord(1)
R2 == RegisterWord(2)
R3 == RegisterWord(3)
BadOperand == RegisterWord(8)

\* the end-to-end scenarios
Hello == << 19, 72, 19, 73, 0 >>
SelfModify == << 16, 4, 21, 15, 21 >>
PushPop == << 2, R0, 2, R1, 3, R2, 3, R3, 0 >>
JtTaken == << 1, R0, 5, 7, R0, 7, 0, 21 >>
InStall == << 20, R0, 20, R1, 0 >>
CallRet == << 17, 3, 0, 18 >>
ReadHigh == << 15, R0, 3, R0 >>
PushThenPop == << 2, 7, 3, R0, 0 >>

\* one instruction with operands a, b, c cut to the opcode's operand count,
\* followed by Noop and Halt
OneInstruction(op, a, b, c) ==
    SubSeq(<< op, a, b, c >>, 1, 1 + operands(OperationFrom(op))) \o << 21, 0 >>

\* destination and source operands: a literal or the register the UI sets
OperandChoices ==
    { << 1, 1, 1 >>, << 1, R0, 1 >>, << R0, 1, R0 >>, << R0, R0, 1 >> }

InstructionPrograms ==
    { OneInstruction(op, w[1], w[2], w[3]) : op \in 0..21, w \in OperandChoices }

\* programs with a word that is no operand, a word that is no opcode, and
\* operands that reach past the end of memory
DecodePrograms ==
    { << 1, BadOperand, 1, 21, 0 >>, << 1, R0, BadOperand, 21, 0 >>,
      << 9, R0, 1, BadOperand, 21, 0 >>, << 3, BadOperand, 21, 0 >>,
      << 22 >>, << 22, 1, BadOperand >>, << 9, R0, 1 >>, << 21 >>,
      << 16, 5, 1, 21, 0 >>, << 16, 7, 1, 21, 0 >> }

Programs ==
    InstructionPrograms \cup DecodePrograms
        \cup { Hello, SelfModify, PushPop, JtTaken, InStall, CallRet, ReadHigh, PushThenPop }

\* register values the UI sets: the length of a two-operand program (an
\* address just past its end) and a word with the high bit set
RegisterValues == {5, 65535}

\* "x\n", and a string with a non-ASCII character
InputStrings == { << 120, 10 >>, << 233, 97 >> }

\* the messages the UI sends while the interpreter is examined
StepMessages ==
    { Msg("Run", 0, 0), Msg("Terminate", 0, 0),
      Msg("SetProgramCounter", 1, 0), Msg("SetProgramCounter", 9, 0) }
        \cup { Msg("SetRegister", 0, v) : v \in RegisterValues }

UiWriteState == \E m \in StepMessages : write_state(m)

UiWriteInput == \E str \in InputStrings : write_input_send(str)

(***************************************************************************)
(* The specification.                                                      *)
(***************************************************************************)
NoResult == [ operands |-> << >>, op |-> "", tag |-> "None", val |-> 0, to_print |-> << >> ]

InitVm(program) ==
    /\ memory = program
    /\ registers = [ r \in 0..7 |-> 0 ]
    /\ stack = << >>
    /\ program_counter = 0
    /\ input_buffer = << >>

\* parse_program_and_save is not running
InitAnalysis ==
    /\ sa_program = << >>
    /\ additional_starts = << >>
    /\ read_addresses = {}
    /\ write_addresses = {}
    /\ exec_blocks = << >>
    /\ jump_targets = << >>
    /\ jump_info = << >>
    /\ block_start = 0
    /\ walk_counter = 0
    /\ known_labels = << >>
    /\ current_block = << >>
    /\ current_address = 0
    /\ destination_file = << >>
    /\ sa_at = "idle"
    /\ overflow_checks = FALSE

\* the patcher is not running
InitPatcher ==
    /\ arguments = << >>
    /\ segments = << >>
    /\ input_file = << >>
    /\ file_data = << >>
    /\ segment_no = 0
    /\ patch_index = 0
    /\ saved = << >>
    /\ bm_at = "idle"

\* no file is being loaded either
InitTools == buffer = << >> /\ InitAnalysis /\ InitPatcher

InitThreadsAt(position) ==
    /\ run_state = Paused
    /\ delay = 0
    /\ tracer = FALSE
    /\ reg_state = [ registers |-> [ r \in 0..7 |-> 0 ], stack_depth |-> 0, program_counter |-> 0 ]
    /\ instr = 0
    /\ vm_at = position
    /\ retval = << >>
    /\ result = NoResult
    /\ nsteps = 0
    /\ state_incoming = << >>
    /\ input_incoming = << >>
    /\ output_outgoing = << >>
    /\ steps_outgoing = << >>
    /\ need_input = FALSE
    /\ ui_at = "Normal"
    /\ ninputs = 0
    /\ prog_states = << >>
    /\ terminal_text = << >>

InitThreads == InitThreadsAt("poll")

InitRest == InitThreads /\ InitTools

Init == (\E program \in Programs : InitVm(program)) /\ InitRest

VmNext ==
    \/ RecvMessage
    \/ PollNone
    \/ Step
    \/ write_output
    \/ ReadInputClear
    \/ ReadInputRaise
    \/ ReadInputRecv
    \/ ReadInputExtend

Next ==
    \/ VmNext
    \/ UiWriteState
    \/ UiOpenField
    \/ UiWriteInput
    \/ write_input_lower

Spec == Init /\ [][Next]_vars

(***************************************************************************)
(* The controller specification: the run-state machine under every kind of *)
(* control message that changes it.                                        *)
(***************************************************************************)
\* zero-operand instructions in a row.  SaveMemory and TraceOperations carry 1
\* for a path that can be opened.
Noops == << 21, 21, 21, 0 >>

ControlPrograms == { Hello, JtTaken, Noops }

ControlMessages ==
    { Msg("Run", 0, 0), Msg("Pause", 0, 0), Msg("SingleStep", 0, 0),
      Msg("RunForSteps", 0, 0), Msg("RunForSteps", 2, 0),
      Msg("RunUntilAddress", 1, 0), Msg("RunUntilAddress", 3, 0),
      Msg("SetCommandDelay", 5, 0), Msg("SetCommandDelay", 0, 1),
      Msg("SetProgramCounter", 2, 0),
      Msg("SetRegister", 0, 65535), Msg("SetRegister", 8, 5),
      Msg("SaveMemory", 1, 0), Msg("TraceOperations", 1, 0), Msg("TraceStop", 0, 0),
      Msg("Terminate", 0, 0) }

ControlWriteState == \E m \in ControlMessages : write_state(m)

ControlInit == (\E program \in ControlPrograms : InitVm(program)) /\ InitRest

ControlNext ==
    \/ RecvMessage
    \/ PollNone
    \/ Step
    \/ write_output
    \/ ControlWriteState

ControlSpec == ControlInit /\ [][ControlNext]_vars

(***************************************************************************)
(* The record specification: the VM emitting step records and output, and  *)
(* the UI taking them in.                                                  *)
(***************************************************************************)
\* Wmem 0 21 overwrites its own opcode word
SelfOverwrite == << 16, 0, 21, 0 >>

RecordPrograms == { Hello, JtTaken, SelfOverwrite, PushThenPop }

RecordMessages ==
    { Msg("Run", 0, 0), Msg("Pause", 0, 0), Msg("SetProgramCounter", 2, 0),
      Msg("Terminate", 0, 0) }

RecordStep == StepWithin(MaxRunSteps)

RecordWriteState == \E m \in RecordMessages : write_state(m)

RecordInit == (\E program \in RecordPrograms : InitVm(program)) /\ InitRest

RecordNext ==
    \/ RecvMessage
    \/ PollNone
    \/ RecordStep
    \/ write_output
    \/ RecordWriteState
    \/ read_steps
    \/ read_output

RecordSpec == RecordInit /\ [][RecordNext]_vars

(***************************************************************************)
(* The input specification: In instructions, read_input on the VM side and *)
(* write_input on the UI side.                                             *)
(***************************************************************************)
\* In R0, Out R0, In R1, Halt
InEcho == << 20, R0, 19, R0, 20, R1, 0 >>

InputPrograms == { InStall, InEcho }

InputMessages == { Msg("Run", 0, 0), Msg("Pause", 0, 0) }

InputStep == StepWithin(MaxRunSteps)

InputWriteState == \E m \in InputMessages : write_state(m)

InputInit == (\E program \in InputPrograms : InitVm(program)) /\ InitRest

InputNext ==
    \/ RecvMessage
    \/ PollNone
    \/ InputStep
    \/ write_output
    \/ ReadInputClear
    \/ ReadInputRaise
    \/ ReadInputRecv
    \/ ReadInputExtend
    \/ InputWriteState
    \/ UiOpenField
    \/ UiWriteInput
    \/ write_input_lower

InputSpec == InputInit /\ [][InputNext]_vars

(***************************************************************************)
(* The backlog specification: the UI sends control messages faster than    *)
(* the VM polls.  The a field of Pause, which the controller does not      *)
(* read, carries the number of steps that had run when the UI sent it.     *)
(***************************************************************************)
BacklogPrograms == { Hello, Noops }

BacklogMessages ==
    { Msg("Run", 0, 0), Msg("SetProgramCounter", 2, 0), Msg("Pause", nsteps, 0) }

BacklogStep == StepWithin(MaxRunSteps)

BacklogWriteState == \E m \in BacklogMessages : write_state_within(m, MaxBacklog)

BacklogInit == (\E program \in BacklogPrograms : InitVm(program)) /\ InitRest

BacklogNext ==
    \/ RecvMessage
    \/ PollNone
    \/ BacklogStep
    \/ write_output
    \/ BacklogWriteState

BacklogSpec == BacklogInit /\ [][BacklogNext]_vars

(***************************************************************************)
(* The prompt specification: the UI calls write_input at any time.  The    *)
(* string it sends tells whether the VM was handling an input request at   *)
(* that moment: "s" (stale) when it was not, "f" (fresh) when it was.      *)
(***************************************************************************)
\* the VM thread is between the InputEmpty result and the end of read_input
HandlingInput == vm_at \in { "read_input", "raise", "recv", "extend" }

StaleString == << 115 >>
FreshString == << 102 >>

PromptPrograms == { InStall, InEcho }

PromptStep == StepWithin(MaxRunSteps)

PromptWriteState == write_state(Msg("Run", 0, 0))

PromptWriteInput ==
    write_input_unasked(IF HandlingInput THEN FreshString ELSE StaleString)

PromptInit == (\E program \in PromptPrograms : InitVm(program)) /\ InitRest

PromptNext ==
    \/ RecvMessage
    \/ PollNone
    \/ PromptStep
    \/ write_output
    \/ ReadInputClear
    \/ ReadInputRaise
    \/ ReadInputRecv
    \/ ReadInputExtend
    \/ PromptWriteState
    \/ PromptWriteInput
    \/ write_input_lower

PromptSpec == PromptInit /\ [][PromptNext]_vars

(***************************************************************************)
(* The run specification: a program started by a single Run, with no       *)
(* control message after it.                                               *)
(***************************************************************************)
RunStep == StepWithin(MaxRunSteps)

\* the user starts the paused machine once
RunWriteState ==
    /\ run_state = Paused
    /\ state_incoming = << >>
    /\ write_state(Msg("Run", 0, 0))

RunInit == (\E program \in Programs : InitVm(program)) /\ InitRest

RunNext ==
    \/ RecvMessage
    \/ PollNone
    \/ RunStep
    \/ write_output
    \/ RunWriteState

RunSpec == RunInit /\ [][RunNext]_vars

(***************************************************************************)
(* Vocabulary of the properties.  A step is one call of operation(): the   *)
(* unprimed variables are the VM before the call, the primed ones after.   *)
(***************************************************************************)
StepTaken == vm_at = "exec" /\ nsteps' = nsteps + 1

FetchedWord == Mem(memory, program_counter)
FetchedOp == OperationFrom(FetchedWord)
OperandWord(i) == Mem(memory, program_counter + i)

\* the operand words of the fetched instruction lie in memory and each is a
\* literal or a register reference
Decodes ==
    /\ program_counter + operands(FetchedOp) < Len(memory)
    /\ \A i \in 1..operands(FetchedOp) : OperandWord(i) <= 32775

\* the value an operand word stands for before the step
Value(w) == IF w <= 32767 THEN w ELSE registers[w - 32768]

HardErrors ==
    { "ErrUnknownOperation", "ErrUnknownOperand", "ErrRegisterExpected", "ErrStackEmpty" }

RegisterDestOps ==
    { "Set", "Pop", "Eq", "Gt", "Add", "Mult", "Mod", "And", "Or", "Not", "Rmem", "In" }

(***************************************************************************)
(* C1.  In every reachable state each of the 8 registers holds a value     *)
(* <= 0x7FFF.                                                              *)
(***************************************************************************)
C1_RegistersMasked == \A r \in 0..7 : registers[r] <= 32767

(***************************************************************************)
(* C2.  At every fetch (the start of a step) program_counter is a valid    *)
(* index into memory.                                                      *)
(***************************************************************************)
C2_PcValidAtFetch == vm_at = "exec" => program_counter < Len(memory)

(***************************************************************************)
(* C3.  Once a step has returned Finished the controller has left its loop *)
(* and takes no further step; memory, registers, stack and program counter *)
(* never change again, whatever messages the UI has sent.                  *)
(***************************************************************************)
C3_HaltedIsFrozen ==
    [][ result.tag = "ErrFinished" =>
          /\ vm_at = "exited"
          /\ vm_at' = "exited"
          /\ UNCHANGED << memory, registers, stack, program_counter, nsteps >> ]_vars

\* the program has halted while a control message was still waiting
C3_Witness ==
    /\ result.tag = "ErrFinished"
    /\ vm_at = "exited"
    /\ state_incoming # << >>

(***************************************************************************)
(* C4.  A step that succeeds on opcode X with k operands fetched at p      *)
(* leaves the program counter at p + 1 + k, except Jmp, a taken Jt or Jf    *)
(* and Call (the dereferenced target) and Ret (the popped value); a Jt or  *)
(* Jf that is not taken falls through to p + 3.                            *)
(***************************************************************************)
C4_ExpectedPc ==
    LET p == program_counter
        X == FetchedOp
    IN  CASE X = "Jmp" -> Value(OperandWord(1))
          [] X = "Jt" -> IF Value(OperandWord(1)) # 0 THEN Value(OperandWord(2)) ELSE p + 3
          [] X = "Jf" -> IF Value(OperandWord(1)) = 0 THEN Value(OperandWord(2)) ELSE p + 3
          [] X = "Call" -> Value(OperandWord(1))
          [] X = "Ret" -> stack[Len(stack)]
          [] OTHER -> p + 1 + operands(X)

C4_PcAfterStep ==
    [][ (StepTaken /\ result'.tag = "Ok") => program_counter' = C4_ExpectedPc ]_vars

\* Jt R0 7 at address 3 with R0 = 5 has jumped to 7
C4_Witness ==
    /\ memory = JtTaken
    /\ result.tag = "Ok"
    /\ result.op = "Jt"
    /\ reg_state.program_counter = 3
    /\ program_counter = 7

(***************************************************************************)
(* C5.  Wmem with target a and value v succeeds; for a at or beyond the    *)
(* memory length (a equal to the length included) memory then has length   *)
(* a + 1, memory[a] = v, the added cells below a are 0 and the old cells   *)
(* are unchanged; for a below the length only memory[a] changes.           *)
(***************************************************************************)
C5_WmemExtends ==
    [][ (StepTaken /\ FetchedOp = "Wmem" /\ Decodes) =>
          LET a == Value(OperandWord(1))
              v == Value(OperandWord(2))
          IN  /\ result'.tag = "Ok"
              /\ IF a >= Len(memory)
                 THEN /\ Len(memory') = a + 1
                      /\ memory'[a + 1] = v
                      /\ \A i \in 1..a : memory'[i] = IF i <= Len(memory) THEN memory[i] ELSE 0
                 ELSE memory' = [ memory EXCEPT ![a + 1] = v ] ]_vars

(***************************************************************************)
(* C6.  Rmem a b with a a register stores memory[deref(b)] when deref(b)   *)
(* is below the memory length and stores 0, without failing, for every     *)
(* address at or beyond the length (the length itself included).           *)
(***************************************************************************)
C6_RmemOutOfRange ==
    [][ (StepTaken /\ FetchedOp = "Rmem" /\ Decodes /\ OperandWord(1) >= 32768) =>
          LET r == OperandWord(1) - 32768
              b == Value(OperandWord(2))
          IN  /\ result'.tag = "Ok"
              /\ registers'[r] = IF b < Len(memory) THEN Mem(memory, b) ELSE 0 ]_vars

(***************************************************************************)
(* C7.  For every opcode with a register destination, a step whose first   *)
(* operand is a Literal returns RegisterExpected and writes no register.   *)
(***************************************************************************)
C7_LiteralDestination ==
    [][ (StepTaken /\ FetchedOp \in RegisterDestOps /\ Decodes /\ OperandWord(1) <= 32767) =>
          /\ result'.tag = "ErrRegisterExpected"
          /\ registers' = registers ]_vars

(***************************************************************************)
(* C8.  A step that returns UnknownOperation, UnknownOperand,              *)
(* RegisterExpected or StackEmpty leaves the registers, the stack and the  *)
(* memory as they were before the step.                                    *)
(***************************************************************************)
C8_ErrorLeavesState ==
    [][ (StepTaken /\ result'.tag \in HardErrors) =>
          UNCHANGED << registers, stack, memory >> ]_vars

\* Pop R0 on an empty stack has returned StackEmpty while R0 held a value
C8_Witness ==
    /\ result.tag = "ErrStackEmpty"
    /\ instr = 3
    /\ registers[0] # 0

(***************************************************************************)
(* C9.  A step that returns UnknownOperation, UnknownOperand,              *)
(* RegisterExpected or StackEmpty (a decode-time UnknownOperand included)  *)
(* leaves the program counter at pc0 + 1 + operand_count.                  *)
(***************************************************************************)
C9_ErrorPcPostDecode ==
    [][ (StepTaken /\ result'.tag \in HardErrors) =>
          program_counter' = program_counter + 1 + operands(FetchedOp) ]_vars

(***************************************************************************)
(* C10.  A step whose fetched word v is no opcode (v > 21) returns         *)
(* UnknownOperation(v) and changes no VM state, whatever follows it in     *)
(* memory and however short the memory is.                                 *)
(***************************************************************************)
C10_UnknownOperation ==
    [][ (StepTaken /\ FetchedWord > 21) =>
          /\ result'.tag = "ErrUnknownOperation"
          /\ result'.val = FetchedWord
          /\ UNCHANGED << program_counter, registers, stack, memory >> ]_vars

(***************************************************************************)
(* C11.  A step on In with a register operand while the input buffer is    *)
(* empty returns InputEmpty, leaves the program counter at the address of  *)
(* the In and changes no register, stack or memory cell.                   *)
(***************************************************************************)
C11_InputEmptyStalls ==
    [][ (StepTaken /\ FetchedOp = "In" /\ Decodes /\ OperandWord(1) >= 32768
            /\ input_buffer = << >>) =>
          /\ result'.tag = "ErrInputEmpty"
          /\ program_counter' = program_counter
          /\ registers' = registers
          /\ stack' = stack
          /\ memory' = memory ]_vars

\* the second In of InStall has stalled at address 2 after the first consumed 'a'
C11_Witness ==
    /\ memory = InStall
    /\ result.tag = "ErrInputEmpty"
    /\ program_counter = 2
    /\ registers[0] = 97
    /\ input_buffer = << >>

(***************************************************************************)
(* C12.  The characters of an ASCII string received after an InputEmpty    *)
(* stall are consumed one per In in typed order, and no new input request  *)
(* is made while any of them is still in the buffer.                       *)
(***************************************************************************)
\* the buffered characters in the order the In instructions will take them
Pending == Reverse(input_buffer)

Emitted == prog_states \o steps_outgoing

HaltEmitted == \E i \in 1..Len(Emitted) : Emitted[i].instruction = << "HALT" >>

C13_HaltRecord ==
    [][ /\ (StepTaken /\ result'.tag = "ErrFinished") =>
              /\ Len(Emitted') = Len(Emitted) + 1
              /\ SubSeq(Emitted', 1, Len(Emitted)) = Emitted
              /\ Emitted'[Len(Emitted')].instruction = << "HALT" >>
              /\ Emitted'[Len(Emitted')].registers.program_counter = program_counter
              /\ run_state' = Terminated
        /\ HaltEmitted => (run_state = Terminated /\ run_state' = Terminated /\ Emitted' = Emitted)
      ]_vars

\* Hello started with Run: the UI holds 'H', 'I' and three records, the last
\* one the HALT record of address 4
C13_Witness ==
    /\ memory = Hello
    /\ terminal_text = << 72, 73 >>
    /\ Len(prog_states) = 3
    /\ prog_states[1].registers.program_counter = 0
    /\ prog_states[3].instruction = << "HALT" >>
    /\ prog_states[3].registers.program_counter = 4
    /\ run_state = Terminated
    /\ vm_at = "exited"

(***************************************************************************)
(* C14.  While the run-state is Paused the controller performs no          *)
(* interpreter step, whichever control message it applies.                 *)
(***************************************************************************)
C14_PausedNoStep ==
    [][ StepTaken => run_state.tag # "Paused" ]_vars

(***************************************************************************)
(* C15.  Under RunForSteps(n) (SingleStep is n = 1) the controller steps   *)
(* at most n times and then blocks on the control channel: no step is      *)
(* taken with a budget of 0, a step with budget 1 leaves a blocking        *)
(* run-state, and a step with budget n > 1 leaves budget n - 1.            *)
(***************************************************************************)
\* the step ran to the run-state update with the run-state it started with
StepReachesUpdate == StepTaken /\ result'.tag \notin { "ErrFinished", "ErrInputEmpty", "Panic" }

C15_StepBudget ==
    [][ (StepReachesUpdate /\ run_state.tag = "PauseAfterSteps") =>
          /\ run_state.n >= 1
          /\ run_state.n = 1 => must_block(run_state')
          /\ run_state.n > 1 => run_state' = PauseAfterSteps(run_state.n - 1) ]_vars

(***************************************************************************)
(* C16.  Under PauseAfterAddress(addr) a step of the instruction at pc0    *)
(* with k operands leaves the controller Paused if and only if             *)
(* pc0 <= addr <= pc0 + k; otherwise the run-state is unchanged.           *)
(***************************************************************************)
C16_PauseAtAddress ==
    [][ (StepReachesUpdate /\ run_state.tag = "PauseAfterAddress") =>
          LET pc0 == program_counter
              k == operands(FetchedOp)
              addr == run_state.n
          IN  IF pc0 <= addr /\ addr <= pc0 + k
              THEN run_state' = Paused
              ELSE run_state' = run_state ]_vars

(***************************************************************************)
(* C17.  The poll that takes Terminate off the control channel exits the   *)
(* VM loop without a step; after the loop has exited no control message is *)
(* consumed, no step is executed and no step record is produced.           *)
(***************************************************************************)
\* the VM thread takes a message of the given kind off the control channel
Takes(type) ==
    /\ vm_at = "poll"
    /\ state_incoming # << >>
    /\ Head(state_incoming).type = type
    /\ state_incoming' = Tail(state_incoming)

C18_SetRegisterMasks ==
    [][ Takes("SetRegister") =>
          LET m == Head(state_incoming)
          IN  registers' = IF m.a <= 7
                           THEN [ registers EXCEPT ![m.a] = BitAnd(m.b, MASK15) ]
                           ELSE registers ]_vars

(***************************************************************************)
(* C19.  Every step record carries the registers, the stack depth and the  *)
(* program counter as they were when the instruction was fetched, also     *)
(* when the instruction jumps or overwrites its own instruction word.      *)
(***************************************************************************)
C19_RecordAtFetch ==
    [][ (StepTaken /\ Emitted' # Emitted) =>
          /\ Len(Emitted') = Len(Emitted) + 1
          /\ Emitted'[Len(Emitted')].registers =
                [ registers |-> registers, stack_depth |-> Len(stack),
                  program_counter |-> program_counter ] ]_vars

\* Wmem 0 21 has replaced its own opcode word; its record shows address 0
C19_Witness ==
    /\ Mem(memory, 0) = 21
    /\ Len(memory) = Len(SelfOverwrite)
    /\ program_counter = 3
    /\ Len(Emitted) = 1
    /\ Emitted[1].registers.program_counter = 0
    /\ Emitted[1].instruction[1] = Mnemonic("Wmem")

(***************************************************************************)
(* C20.  Each successfully executed instruction produces exactly one step  *)
(* record, nothing else produces one, and the UI takes the records in in   *)
(* the order the instructions were executed.                               *)
(***************************************************************************)
C20_RecordsInOrder ==
    [][ /\ (StepTaken /\ result'.tag = "Ok") =>
              /\ Len(Emitted') = Len(Emitted) + 1
              /\ SubSeq(Emitted', 1, Len(Emitted)) = Emitted
              /\ Emitted'[Len(Emitted')].registers.program_counter = program_counter
              /\ Emitted'[Len(Emitted')].instruction[1] = Mnemonic(FetchedOp)
        /\ (StepTaken /\ result'.tag \notin { "Ok", "ErrFinished" }) => Emitted' = Emitted
        /\ ~StepTaken => Emitted' = Emitted
        /\ SubSeq(prog_states', 1, Len(prog_states)) = prog_states ]_vars

\* the UI took in the record of Set R0 5, then in a later batch that of Jt R0 7
C20_Witness ==
    /\ memory = JtTaken
    /\ Len(prog_states) = 2
    /\ prog_states[1].registers.program_counter = 0
    /\ prog_states[2].registers.program_counter = 3
    /\ steps_outgoing = << >>
    /\ program_counter = 7

(***************************************************************************)
(* C21.  The character of an Out step is sent after that step's record and *)
(* before the record of any later step: the characters sent are as many as *)
(* the Out records sent, less the one whose character is about to be sent. *)
(***************************************************************************)
\* every output character the VM has sent, in the order sent
Printed == terminal_text \o output_outgoing

OutRecords == { i \in 1..Len(Emitted) : Emitted[i].instruction[1] = Mnemonic("Out") }

C21_OutputAfterRecord ==
    /\ Len(Printed) = Cardinality(OutRecords) - (IF vm_at = "write_output" THEN 1 ELSE 0)
    /\ vm_at = "write_output" => Len(Emitted) \in OutRecords

\* Hello: both Out records are sent, 'H' is sent and 'I' is about to be
C21_Witness ==
    /\ memory = Hello
    /\ vm_at = "write_output"
    /\ Len(Emitted) = 2
    /\ Printed = << 72 >>

(***************************************************************************)
(* C22.  A Pause the UI has sent is applied before a second step starts:   *)
(* when a step starts while a Pause is waiting in the channel, no step has *)
(* run since that Pause was sent, whatever else was queued before it.      *)
(***************************************************************************)
C22_PauseWithinOneStep ==
    [][ StepTaken =>
          \A i \in 1..Len(state_incoming) :
              state_incoming[i].type = "Pause" => state_incoming[i].a >= nsteps ]_vars

(***************************************************************************)
(* C23.  No string the UI sent before the VM started to handle an input    *)
(* request reaches the VM's input buffer: read_input discards what is in   *)
(* the channel before it raises need_input and receives.                   *)
(***************************************************************************)
C23_StaleDiscarded ==
    /\ \A i \in 1..Len(input_buffer) : input_buffer[i] # StaleString[1]
    /\ \A i \in 1..Len(retval) : retval[i] # StaleString[1]
    /\ \A r \in 0..7 : registers[r] # StaleString[1]

\* two strings were sent before the stall; read_input has discarded the first
\* and is about to discard the second
C23_Witness ==
    /\ memory = InStall
    /\ vm_at = "read_input"
    /\ ninputs = 2
    /\ input_incoming = << StaleString >>
    /\ input_buffer = << >>

(***************************************************************************)
(* C24.  Whenever the VM is blocked in the input receive, the input queue  *)
(* is empty and no write_input is in progress, need_input is true.         *)
(***************************************************************************)
C24_FlagWhileWaiting ==
    (vm_at = "recv" /\ input_incoming = << >> /\ ui_at # "Lower") => need_input

(***************************************************************************)
(* C25.  A step that returns an error other than InputEmpty and Finished   *)
(* leaves a notification the UI endpoint can observe.                      *)
(***************************************************************************)
\* what the methods of the UI endpoint read: the two channels towards the UI
\* and the need_input flag
UiObservable == << steps_outgoing, output_outgoing, need_input >>

C25_ErrorSurfaced ==
    [][ (StepTaken /\ result'.tag \in HardErrors) => UiObservable' # UiObservable ]_vars

(***************************************************************************)
(* C26.  After a step returned the decode error UnknownOperand, the        *)
(* controller does not execute the instruction at the same program counter *)
(* again when no control message has been applied in between.              *)
(***************************************************************************)
C26_DecodeErrorNotRetried ==
    [][ (StepTaken /\ result.tag = "ErrUnknownOperand") =>
          program_counter # reg_state.program_counter ]_vars

(***************************************************************************)
(* C27.  Memory [16, 4, 21, 15, 21] run from 0: the first step leaves      *)
(* memory[4] = 21 and the program counter 3; the second step, on Rmem at   *)
(* 3, returns RegisterExpected, leaves memory[4] = 21 and the program      *)
(* counter past the operands of Rmem.                                      *)
(***************************************************************************)
C27_SelfModifyScenario ==
    [][ (StepTaken /\ memory = SelfModify) =>
          /\ program_counter = 0 =>
                (result'.tag = "Ok" /\ Mem(memory', 4) = 21 /\ program_counter' = 3)
          /\ program_counter = 3 =>
                (result'.tag = "ErrRegisterExpected" /\ Mem(memory', 4) = 21
                    /\ program_counter' = 6) ]_vars

(***************************************************************************)
(* machine.rs: VirtualMachine::init_from_file, the binary loader.          *)
(***************************************************************************)
MaxBytes == 3

\* Itertools::tuples::<(u8, u8)>: adjacent items in stream order, two at a
\* time; items left over when the stream ends inside a tuple are not yielded
RECURSIVE tuples(_)
tuples(bytes) ==
    IF Len(bytes) < 2 THEN << >>
    ELSE << << bytes[1], bytes[2] >> >> \o tuples(SubSeq(bytes, 3, Len(bytes)))

\* |(low, hi)| { let mut retval: u16 = hi as u16; retval <<= 8; retval |= low as u16; retval }
word_from(pair) == BitOr((pair[2] * 256) % U16, pair[1])

\* let data_buffer: Vec<u16> = buffer.bytes()...tuples().map(...).collect()
data_buffer(bytes) == [ i \in 1..Len(tuples(bytes)) |-> word_from(tuples(bytes)[i]) ]

\* Ok(VirtualMachine { memory: data_buffer, registers: [0; 8], ... })
init_from_file ==
    /\ vm_at = "init_from_file"
    /\ memory' = data_buffer(buffer)
    /\ registers' = [ r \in 0..7 |-> 0 ]
    /\ stack' = << >>
    /\ program_counter' = 0
    /\ input_buffer' = << >>
    /\ vm_at' = "poll"
    /\ UNCHANGED << toolVars, ctlVars, chanVars, retval, result, nsteps, ui_at, ninputs,
                    prog_states, terminal_text >>

\* the bytes of the file: every read succeeds
Bytes == { 0, 19, 21, 255 }

RECURSIVE StreamsOfLength(_)
StreamsOfLength(n) ==
    IF n = 0 THEN { << >> }
    ELSE { Append(s, b) : s \in StreamsOfLength(n - 1), b \in Bytes }

ByteStreams == UNION { StreamsOfLength(n) : n \in 0..MaxBytes }

\* main.rs: the file named on the command line is opened, nothing is loaded yet
LoaderInit ==
    /\ InitVm(<< >>)
    /\ InitThreadsAt("init_from_file")
    /\ InitAnalysis
    /\ InitPatcher
    /\ buffer \in ByteStreams

LoaderNext == init_from_file

LoaderSpec == LoaderInit /\ [][LoaderNext]_vars

(***************************************************************************)
(* C28.  The loader pairs adjacent bytes (low, high) into high * 256 + low *)
(* in stream order, and a stream of odd length still yields a last word    *)
(* equal to its final byte, so that the number of words is the number of   *)
(* bytes halved and rounded up.                                            *)
(***************************************************************************)
Loaded == vm_at # "init_from_file"

C28_LoaderPairsBytes ==
    Loaded =>
        /\ Len(memory) = (Len(buffer) + 1) \div 2
        /\ \A i \in 1..Len(memory) :
              memory[i] = (IF 2 * i <= Len(buffer) THEN buffer[2 * i] * 256 ELSE 0)
                          + buffer[2 * i - 1]

(***************************************************************************)
(* static_analysis.rs: parse_program_and_save, the disassembler.           *)
(* File::create and every write to destination_file are taken to succeed.  *)
(***************************************************************************)
MaxWords == 4

\* ExecBlock::new
ExecBlock(start, end) == [ start |-> start, end |-> end ]

\* ExecBlock::contains
contains(block, addr) == block.start <= addr /\ block.end >= addr

\* struct Jump: target is << >> for None and << a >> for Some(a)
Jump(from, target) == [ from |-> from, target |-> target ]

\* the locals the discovery loop works on, and where the function stands
Discovery ==
    [ at |-> sa_at, program_counter |-> walk_counter, exec_blocks |-> exec_blocks,
      jump_targets |-> jump_targets, jump_info |-> jump_info,
      read_addresses |-> read_addresses, write_addresses |-> write_addresses ]

\* an index past the end of program, or an overflowing addition in a build
\* that checks it
Panics(s) == [ s EXCEPT !.at = "panic" ]

\* let target = ParsedValue::from(program[program_counter + k]);
\* if let ParsedValue::Literal(address) = target { push both } else { push a Jump without target }
push_jump(s, k) ==
    LET pc == s.program_counter
    IN  IF pc + k >= Len(sa_program) THEN Panics(s)
        ELSE LET target == ParsedValueFrom(Mem(sa_program, pc + k))
             IN  IF target.tag = "Literal"
                 THEN [ s EXCEPT !.jump_targets = Append(@, target.v),
                                 !.jump_info = Append(@, Jump(pc % U16, << target.v >>)) ]
                 ELSE [ s EXCEPT !.jump_info = Append(@, Jump(pc % U16, << >>)) ]

\* let next_value = Operation::from(program[end as usize + 1]);
\* if let Operation::Error(_) = next_value { continue } jump_targets.push(end+1); continue
\* (end + 1 cannot overflow here: the index end as usize + 1 was in range)
next_value(s, end) ==
    IF end + 1 >= Len(sa_program) THEN Panics(s)
    ELSE IF OperationFrom(Mem(sa_program, end + 1)) = "Error" THEN [ s EXCEPT !.at = "pop" ]
    ELSE [ s EXCEPT !.at = "pop", !.jump_targets = Append(@, end + 1) ]

\* let target = ParsedValue::from(program[program_counter + 1]);
\* if let ParsedValue::Literal(address) = target { set.insert(address); }
literal_address(s) ==
    LET target == ParsedValueFrom(Mem(sa_program, s.program_counter + 1))
    IN  IF target.tag = "Literal" THEN { target.v } ELSE { }

\* one pass of the inner loop for the block that starts at start; checks
\* tells whether program_counter as u16 + operands panics on overflow or wraps
walk(s, start, checks) ==
    LET pc == s.program_counter
    IN  IF pc >= Len(sa_program) THEN Panics(s)
        ELSE
        LET instruction == OperationFrom(Mem(sa_program, pc))
            n == operands(instruction)
            sum == (pc % U16) + n
            end == sum % U16
            closed == [ s EXCEPT !.exec_blocks = Append(@, ExecBlock(start, end)) ]
            advance(t) == IF t.at = "panic" THEN t
                          ELSE [ t EXCEPT !.program_counter = pc + 1 + n ]
        IN  CASE instruction \in { "Halt", "Ret", "Error" } ->
                     IF sum >= U16 /\ checks THEN Panics(s)
                     ELSE next_value([ closed EXCEPT !.jump_info = Append(@, Jump(pc % U16, << >>)) ],
                                     end)
              [] instruction = "Jmp" ->
                     IF sum >= U16 /\ checks THEN Panics(s)
                     ELSE LET jumped == push_jump(closed, 1)
                          IN  IF jumped.at = "panic" THEN jumped ELSE next_value(jumped, end)
              [] instruction \in { "Jf", "Jt" } -> advance(push_jump(s, 2))
              [] instruction = "Call" -> advance(push_jump(s, 1))
              [] instruction = "Rmem" ->
                     IF pc + 1 >= Len(sa_program) THEN Panics(s)
                     ELSE advance([ s EXCEPT !.read_addresses = @ \cup literal_address(s) ])
              [] instruction = "Wmem" ->
                     IF pc + 1 >= Len(sa_program) THEN Panics(s)
                     ELSE advance([ s EXCEPT !.write_addresses = @ \cup literal_address(s) ])
              [] OTHER -> advance(s)

\* pop_jump_target without the test for a block that starts at the candidate
pop_jump_target_rewalks ==
    /\ sa_at = "pop"
    /\ jump_targets # << >>
    /\ block_start' = jump_targets[Len(jump_targets)]
    /\ jump_targets' = SubSeq(jump_targets, 1, Len(jump_targets) - 1)
    /\ sa_at' = "walk"
    /\ walk_counter' = block_start'
    /\ UNCHANGED << vmVars, ctlVars, chanVars, vm_at, retval, result, nsteps, ui_at, ninputs,
                    prog_states, terminal_text, buffer, bmVars, sa_program, additional_starts,
                    read_addresses, write_addresses, exec_blocks, jump_info, known_labels,
                    current_block, current_address, destination_file, overflow_checks >>

\* 'executable: while let Some(block_start) = jump_targets.pop(): a start
\* some block already has is dropped, any other start is walked
pop_jump_target ==
    /\ sa_at = "pop"
    /\ jump_targets # << >>
    /\ block_start' = jump_targets[Len(jump_targets)]
    /\ jump_targets' = SubSeq(jump_targets, 1, Len(jump_targets) - 1)
    /\ IF \E i \in 1..Len(exec_blocks) : exec_blocks[i].start = block_start'
       THEN UNCHANGED << sa_at, walk_counter >>
       ELSE sa_at' = "walk" /\ walk_counter' = block_start'
    /\ UNCHANGED << vmVars, ctlVars, chanVars, vm_at, retval, result, nsteps, ui_at, ninputs,
                    prog_states, terminal_text, buffer, bmVars, sa_program, additional_starts, read_addresses,
                    write_addresses, exec_blocks, jump_info, known_labels, current_block,
                    current_address, destination_file, overflow_checks >>

\* loop { let instruction = Operation::from(program[program_counter]); match instruction ... }
walk_instruction ==
    /\ sa_at = "walk"
    /\ LET s == walk(Discovery, block_start, overflow_checks)
       IN  /\ sa_at' = s.at
           /\ walk_counter' = s.program_counter
           /\ exec_blocks' = s.exec_blocks
           /\ jump_targets' = s.jump_targets
           /\ jump_info' = s.jump_info
           /\ read_addresses' = s.read_addresses
           /\ write_addresses' = s.write_addresses
    /\ UNCHANGED << vmVars, ctlVars, chanVars, vm_at, retval, result, nsteps, ui_at, ninputs,
                    prog_states, terminal_text, buffer, bmVars, sa_program, additional_starts, block_start,
                    known_labels,
                    current_block, current_address, destination_file, overflow_checks >>

\* slice::sort_by on the field f: stable, ascending.  The element at index i
\* goes behind the elements with a smaller key and the earlier ones with an
\* equal key
sort_by(s, f) ==
    LET rank(i) == Cardinality({ j \in 1..Len(s) :
                                   s[j][f] < s[i][f] \/ (s[j][f] = s[i][f] /\ j < i) }) + 1
    IN  [ p \in 1..Len(s) |-> s[CHOOSE i \in 1..Len(s) : rank(i) = p] ]

\* coalesce_pair with overlapping blocks never combined
coalesce_pair_keeps(l, r) == << l, r >>

\* the closure given to coalesce: << l, r >> is Err((l, r)), one block is Ok
coalesce_pair(l, r) ==
    IF l.end < r.start THEN << l, r >>
    ELSE IF l.end >= r.end THEN << l >>
    ELSE << ExecBlock(l.start, r.end) >>

\* Itertools::coalesce: the pending block is combined with the next one, or
\* yielded when the closure returns Err
RECURSIVE coalesce(_)
coalesce(blocks) ==
    IF Len(blocks) < 2 THEN blocks
    ELSE LET pair == coalesce_pair(blocks[1], blocks[2])
             rest == SubSeq(blocks, 3, Len(blocks))
         IN  IF Len(pair) = 2 THEN << pair[1] >> \o coalesce(<< pair[2] >> \o rest)
             ELSE coalesce(pair \o rest)

\* targeted_jumps sorted by target, as JumpLabel values
labels_of(jumps) ==
    LET targeted == SelectSeq(jumps, LAMBDA jump : jump.target # << >>)
    IN  sort_by([ i \in 1..Len(targeted) |->
                    [ from |-> targeted[i].from, target |-> targeted[i].target[1] ] ],
                "target")

\* one line of destination_file: what it is, the address it starts at, the
\* words of program it shows, and the label source, the character code of
\* an Out or the word count of the header
Line(kind, addr, words, extra) == [ kind |-> kind, addr |-> addr, words |-> words, extra |-> extra ]

\* program[from..to] with to exclusive
Slice(from, to) == [ i \in 1..(to - from) |-> Mem(sa_program, from + i - 1) ]

\* Step 3 when the work list is empty: labels, sorted and coalesced blocks,
\* File::create, the three header lines, and the first block
prepare_listing ==
    /\ sa_at = "pop"
    /\ jump_targets = << >>
    /\ known_labels' = labels_of(jump_info)
    /\ destination_file' = << Line("header", 0, << >>, << Len(sa_program) >>) >>
    /\ current_address' = 0
    /\ LET blocks == coalesce(sort_by(exec_blocks, "start"))
       IN  IF blocks = << >>
           THEN sa_at' = "panic" /\ UNCHANGED << exec_blocks, current_block >>
           ELSE sa_at' = "emit" /\ current_block' = blocks[1] /\ exec_blocks' = Tail(blocks)
    /\ UNCHANGED << vmVars, ctlVars, chanVars, vm_at, retval, result, nsteps, ui_at, ninputs,
                    prog_states, terminal_text, buffer, bmVars, sa_program, additional_starts, read_addresses,
                    write_addresses, jump_targets, jump_info, block_start, walk_counter,
                    overflow_checks >>

\* the instruction branch: label lines, then the instruction with the words
\* program[current_address + op] for op in 0..=operands, then the character
\* of an Out; an index past the end panics with the words before it written
emit_instruction ==
    LET op == OperationFrom(Mem(sa_program, current_address))
        n == operands(op)
        stop == IF current_address + n >= Len(sa_program)
                THEN Len(sa_program) ELSE current_address + n + 1
        labels == SelectSeq(known_labels, LAMBDA label : label.target = current_address)
        label_lines == [ i \in 1..Len(labels) |->
                           Line("label", current_address, << >>, << labels[i].from >>) ]
        overrun == current_address + n >= Len(sa_program)
        code == IF op = "Out" /\ ~overrun
                THEN << BitAnd(Mem(sa_program, current_address + 1), 127) >> ELSE << >>
    IN  /\ destination_file' = destination_file \o label_lines
                                \o << Line("instr", current_address,
                                           Slice(current_address, stop), code) >>
        /\ IF overrun
           THEN sa_at' = "panic" /\ UNCHANGED current_address
           ELSE current_address' = current_address + n + 1 /\ UNCHANGED sa_at
        /\ UNCHANGED << exec_blocks, current_block >>

\* the data branch: the next block, if any, becomes current_block; rows of
\* at most eight words up to its start, or up to the end of program
emit_data ==
    LET more == exec_blocks # << >>
        stop_point == IF more THEN Head(exec_blocks).start ELSE Len(sa_program)
        nrows == IF stop_point > current_address
                 THEN (stop_point - current_address + 7) \div 8 ELSE 0
        row(k) == LET row_start == current_address + 8 * (k - 1)
                      row_stop == IF stop_point - row_start < 8 THEN stop_point ELSE row_start + 8
                  IN  Line("data", row_start, Slice(row_start, row_stop), << >>)
    IN  /\ IF more
           THEN current_block' = Head(exec_blocks) /\ exec_blocks' = Tail(exec_blocks)
           ELSE UNCHANGED << exec_blocks, current_block >>
        /\ destination_file' = destination_file \o [ k \in 1..nrows |-> row(k) ]
        /\ current_address' = stop_point
        /\ UNCHANGED sa_at

\* while current_address < program.len() { ... } Ok(())
emit ==
    /\ sa_at = "emit"
    /\ IF current_address >= Len(sa_program)
       THEN sa_at' = "done"
            /\ UNCHANGED << exec_blocks, current_block, current_address, destination_file >>
       ELSE IF contains(current_block, current_address) THEN emit_instruction ELSE emit_data
    /\ UNCHANGED << vmVars, ctlVars, chanVars, vm_at, retval, result, nsteps, ui_at, ninputs,
                    prog_states, terminal_text, buffer, bmVars, sa_program, additional_starts, read_addresses,
                    write_addresses, jump_targets, jump_info, block_start, walk_counter,
                    known_labels, overflow_checks >>

\* the programs handed to parse_program_and_save
Words == { 0, 2, 6, 7, 21, 30000 }

RECURSIVE ProgramsOfLength(_)
ProgramsOfLength(n) ==
    IF n = 0 THEN { << >> }
    ELSE { Append(s, w) : s \in ProgramsOfLength(n - 1), w \in Words }

\* Call 5, three zero words, Noop, Ret
CallExample == << 17, 5, 0, 0, 0, 21, 18 >>
\* the same followed by a word that is no operation
CallExampleClosed == << 17, 5, 0, 0, 0, 21, 18, 30000 >>
\* Jt R0 2 jumps into its own operand: Push 0 at 2 overlaps the block from 0
JumpInside == << 7, 32768, 2, 0, 30000 >>
\* Rmem, Wmem and Out, then Halt and nine words of data
DataTail == << 15, 32768, 5, 16, 5, 32768, 19, 65, 0,
               30000, 30000, 30000, 30000, 30000, 30000, 30000, 30000, 30000 >>

AnalysisPrograms ==
    UNION { ProgramsOfLength(n) : n \in 0..MaxWords }
        \cup { CallExample, CallExampleClosed, JumpInside, DataTail }

\* additional_starts: None, or one extra entry point
AdditionalStarts == { << >>, << 1 >>, << 2 >> }

\* Step 1 of parse_program_and_save, in either kind of build
AnalysisInit ==
    /\ InitVm(<< >>)
    /\ InitThreads
    /\ buffer = << >>
    /\ InitPatcher
    /\ sa_program \in AnalysisPrograms
    /\ overflow_checks \in BOOLEAN
    /\ read_addresses = {}
    /\ write_addresses = {}
    /\ exec_blocks = << >>
    /\ additional_starts \in AdditionalStarts
    /\ jump_targets = << 0 >> \o additional_starts
    /\ jump_info = << >>
    /\ block_start = 0
    /\ walk_counter = 0
    /\ known_labels = << >>
    /\ current_block = << >>
    /\ current_address = 0
    /\ destination_file = << >>
    /\ sa_at = "pop"

AnalysisNext ==
    \/ pop_jump_target
    \/ walk_instruction
    \/ prepare_listing
    \/ emit

AnalysisSpec == AnalysisInit /\ [][AnalysisNext]_vars

(***************************************************************************)
(* Vocabulary of the listing properties.                                   *)
(***************************************************************************)
\* the word addresses a line of the listing shows
Shown(line) ==
    IF line.kind \in { "instr", "data" }
    THEN { line.addr + i - 1 : i \in 1..Len(line.words) } ELSE { }

\* the number of lines written so far that show address a
Emissions(a) ==
    Cardinality({ i \in 1..Len(destination_file) : a \in Shown(destination_file[i]) })

\* no address lies in two of the blocks
Disjoint(blocks) ==
    \A i, j \in 1..Len(blocks) :
        i < j => \/ blocks[i].start > blocks[i].end
                 \/ blocks[j].start > blocks[j].end
                 \/ blocks[i].end < blocks[j].start
                 \/ blocks[j].end < blocks[i].start

Listing == sa_at \in { "emit", "done" }

C30_CallExampleListing ==
    (sa_program = CallExample /\ additional_starts = << >>) =>
        /\ sa_at # "panic"
        /\ sa_at = "done" =>
              /\ \E i \in 1..Len(destination_file) :
                    destination_file[i] = Line("instr", 0, << 17, 5 >>, << >>)
              /\ \E i \in 2..(Len(destination_file) - 1) :
                    /\ destination_file[i - 1] = Line("label", 5, << >>, << 0 >>)
                    /\ destination_file[i] = Line("instr", 5, << 21 >>, << >>)
                    /\ destination_file[i + 1] = Line("instr", 6, << 18 >>, << >>)
              /\ \A a \in 2..4 : \E i \in 1..Len(destination_file) :
                    destination_file[i].kind = "data" /\ a \in Shown(destination_file[i])
              /\ \A a \in 2..4 : \A i \in 1..Len(destination_file) :
                    destination_file[i].kind = "instr" => a \notin Shown(destination_file[i])

(***************************************************************************)
(* binmod/main.rs: the binary patcher.  A string is the sequence of its    *)
(* characters; the input file is taken to exist and the destination to be  *)
(* writable.                                                               *)
(***************************************************************************)
MaxSegments == 2

\* "0123456789ABCDEF"
HexDigits == << "0", "1", "2", "3", "4", "5", "6", "7", "8", "9", "A", "B", "C", "D", "E", "F" >>

\* char::to_ascii_uppercase
to_ascii_uppercase(c) ==
    CASE c = "a" -> "A" [] c = "b" -> "B" [] c = "c" -> "C" [] c = "d" -> "D"
      [] c = "e" -> "E" [] c = "f" -> "F" [] c = "g" -> "G" [] OTHER -> c

\* fn hex_num
hex_num(c) == \E i \in 1..Len(HexDigits) : HexDigits[i] = to_ascii_uppercase(c)

\* u8::from_str_radix(_, 16) and u16::from_str_radix(_, 16), on characters
\* that passed hex_num
RECURSIVE from_str_radix(_)
from_str_radix(s) ==
    IF s = << >> THEN 0
    ELSE 16 * from_str_radix(SubSeq(s, 1, Len(s) - 1))
         + (CHOOSE i \in 1..Len(HexDigits) : HexDigits[i] = to_ascii_uppercase(s[Len(s)])) - 1

\* Err(Error::new(ErrorKind::Other, ...))
Malformed == [ ok |-> FALSE, start_address |-> 0, data |-> << >> ]

\* impl FromStr for Segment: two characters make a byte, and of every two
\* bytes the second is stored first
from_str(s) ==
    IF Len(s) < 9 \/ s[5] # ":" THEN Malformed
    ELSE LET seg_address == SubSeq(s, 1, 4)
             seg_data == SubSeq(s, 6, Len(s))
             bytes == [ i \in 1..(Len(seg_data) \div 2) |->
                          from_str_radix(SubSeq(seg_data, 2 * i - 1, 2 * i)) ]
             parsed_data == [ i \in 1..(2 * (Len(bytes) \div 2)) |->
                                IF i % 2 = 1 THEN bytes[i + 1] ELSE bytes[i - 1] ]
         IN  IF \E i \in 1..4 : ~hex_num(seg_address[i]) THEN Malformed
             ELSE IF (\E i \in 1..Len(seg_data) : ~hex_num(seg_data[i]))
                     \/ Len(seg_data) % 4 # 0 THEN Malformed
             ELSE [ ok |-> TRUE, start_address |-> from_str_radix(seg_address),
                    data |-> parsed_data ]

\* Args::parse(): every -s value goes through Segment::parse_arg, and one
\* that fails ends the process with a usage error
parse_args ==
    /\ bm_at = "parse"
    /\ IF \A i \in 1..Len(arguments) : from_str(arguments[i]).ok
       THEN /\ segments' = [ i \in 1..Len(arguments) |-> from_str(arguments[i]) ]
            /\ bm_at' = "read"
       ELSE /\ bm_at' = "usage"
            /\ UNCHANGED segments
    /\ UNCHANGED << vmVars, ctlVars, chanVars, vm_at, retval, result, nsteps, ui_at, ninputs,
                    prog_states, terminal_text, buffer, saVars, arguments, input_file,
                    file_data, segment_no, patch_index, saved >>

\* let mut file_data = fs::read(&args.input_path); for segment in args.segments.iter()
read_file ==
    /\ bm_at = "read"
    /\ file_data' = input_file
    /\ segment_no' = 1
    /\ patch_index' = 0
    /\ bm_at' = IF segments = << >> THEN "write" ELSE "patch"
    /\ UNCHANGED << vmVars, ctlVars, chanVars, vm_at, retval, result, nsteps, ui_at, ninputs,
                    prog_states, terminal_text, buffer, saVars, arguments, segments,
                    input_file, saved >>

\* for index in 0..=segment.data.len() { file_data[start_index + index] = segment.data[index]; }
\* one pass of the inner loop, or the move to the next segment after it
patch_byte ==
    /\ bm_at = "patch"
    /\ LET segment == segments[segment_no]
           start_index == segment.start_address * 2
           index == patch_index
       IN  IF index > Len(segment.data)
           THEN /\ segment_no' = segment_no + 1
                /\ patch_index' = 0
                /\ bm_at' = IF segment_no = Len(segments) THEN "write" ELSE "patch"
                /\ UNCHANGED file_data
           ELSE IF index >= Len(segment.data) \/ start_index + index >= Len(file_data)
           THEN /\ bm_at' = "panic"
                /\ UNCHANGED << file_data, segment_no, patch_index >>
           ELSE /\ file_data' = [ file_data EXCEPT ![start_index + index + 1] =
                                                      segment.data[index + 1] ]
                /\ patch_index' = index + 1
                /\ UNCHANGED << segment_no, bm_at >>
    /\ UNCHANGED << vmVars, ctlVars, chanVars, vm_at, retval, result, nsteps, ui_at, ninputs,
                    prog_states, terminal_text, buffer, saVars, arguments, segments,
                    input_file, saved >>

\* fs::write(&args.destination_path, file_data)
write_file ==
    /\ bm_at = "write"
    /\ saved' = << file_data >>
    /\ bm_at' = "done"
    /\ UNCHANGED << vmVars, ctlVars, chanVars, vm_at, retval, result, nsteps, ui_at, ninputs,
                    prog_states, terminal_text, buffer, saVars, arguments, segments,
                    input_file, file_data, segment_no, patch_index >>

\* -s values: 0000:1315, 0001:00ff, and two that do not parse
PatchArguments ==
    { << "0", "0", "0", "0", ":", "1", "3", "1", "5" >>,
      << "0", "0", "0", "1", ":", "0", "0", "f", "f" >>,
      << "0", "0", "0", "0", ":", "1", "2" >>,
      << "0", "0", "0", "g", ":", "0", "0", "0", "0" >> }

RECURSIVE ArgumentLists(_)
ArgumentLists(n) ==
    IF n = 0 THEN { << >> }
    ELSE { Append(s, a) : s \in ArgumentLists(n - 1), a \in PatchArguments }

\* the command line has been read, nothing is parsed yet
PatcherInit ==
    /\ InitVm(<< >>)
    /\ InitThreads
    /\ buffer = << >>
    /\ InitAnalysis
    /\ arguments \in UNION { ArgumentLists(n) : n \in 0..MaxSegments }
    /\ segments = << >>
    /\ input_file \in ByteStreams
    /\ file_data = << >>
    /\ segment_no = 0
    /\ patch_index = 0
    /\ saved = << >>
    /\ bm_at = "parse"

PatcherNext ==
    \/ parse_args
    \/ read_file
    \/ patch_byte
    \/ write_file

PatcherSpec == PatcherInit /\ [][PatcherNext]_vars

(***************************************************************************)
(* Vocabulary of the patcher property.                                     *)
(***************************************************************************)
\* file with the bytes of one segment laid over it from byte offset ADDR * 2
Overlay(file, segment) ==
    [ i \in 1..Len(file) |->
        IF i - 1 >= segment.start_address * 2
           /\ i - 1 < segment.start_address * 2 + Len(segment.data)
        THEN segment.data[i - segment.start_address * 2]
        ELSE file[i] ]

\* the segments laid over the file in argument order
RECURSIVE Patched(_, _)
Patched(file, segs) ==
    IF segs = << >> THEN file
    ELSE Patched(Overlay(file, Head(segs)), Tail(segs))

\* every segment lies inside the input file
SegmentsFit ==
    \A i \in 1..Len(segments) :
        segments[i].start_address * 2 + Len(segments[i].data) <= Len(input_file)

(***************************************************************************)
(* C31.  The patcher's output has the length of the input file, holds each *)
(* segment's bytes from byte offset ADDR * 2 on with the segments applied  *)
(* in argument order, and equals the input everywhere else: with segments  *)
(* that lie inside the file the patcher does not abort, and what it saves  *)
(* is the input with the segments laid over it.                            *)
(***************************************************************************)
C31_PatchedOutput ==
    /\ ~(SegmentsFit /\ bm_at = "panic")
    /\ bm_at = "done" => saved = << Patched(input_file, segments) >>

(***************************************************************************)
(* C32.  Call a at address pc0 pushes pc0 + 2 and sets the program counter *)
(* to the value of a; Ret with a non-empty stack sets the program counter  *)
(* to the top entry and removes it, so that a Ret that finds the entry of  *)
(* a Call on top continues at pc0 + 2; Ret on an empty stack returns       *)
(* StackEmpty and leaves the stack empty.                                  *)
(***************************************************************************)
C32_CallRet ==
    [][ /\ (StepTaken /\ FetchedOp = "Call" /\ Decodes) =>
              /\ result'.tag = "Ok"
              /\ stack' = Append(stack, program_counter + 2)
              /\ program_counter' = Value(OperandWord(1))
        /\ (StepTaken /\ FetchedOp = "Ret" /\ stack # << >>) =>
              /\ result'.tag = "Ok"
              /\ program_counter' = stack[Len(stack)]
              /\ stack' = SubSeq(stack, 1, Len(stack) - 1)
        /\ (StepTaken /\ FetchedOp = "Ret" /\ stack = << >>) =>
              /\ result'.tag = "ErrStackEmpty"
              /\ stack' = << >> ]_vars

\* Call 3 at address 0 was followed by the Ret at 3, which continued at 2
C32_Witness ==
    /\ memory = CallRet
    /\ result.tag = "Ok"
    /\ result.op = "Ret"
    /\ reg_state.program_counter = 3
    /\ program_counter = 2
    /\ stack = << >>

(***************************************************************************)
(* The stack specification: PushPop and two shorter programs, run to their *)
(* Halt while the UI sets R0 and R1.                                       *)
(***************************************************************************)
MaxStackSteps == 5

\* Pop R0 with nothing pushed
PopEmpty == << 3, R0, 21, 0 >>

StackPrograms == { PushPop, PushThenPop, PopEmpty }

StackMessages ==
    { Msg("Run", 0, 0), Msg("SetRegister", 0, 5), Msg("SetRegister", 1, 9),
      Msg("SetRegister", 0, 65535) }

StackStep == StepWithin(MaxStackSteps)

StackWriteState == \E m \in StackMessages : write_state(m)

StackInit == (\E program \in StackPrograms : InitVm(program)) /\ InitRest

StackNext ==
    \/ RecvMessage
    \/ PollNone
    \/ StackStep
    \/ StackWriteState

StackSpec == StackInit /\ [][StackNext]_vars

(***************************************************************************)
(* C33.  Push a appends the value of a to the stack; Pop into a register   *)
(* stores the value pushed last and not yet popped, masked with 0x7FFF,    *)
(* and removes it; Pop on an empty stack returns StackEmpty and leaves the *)
(* registers as they were.  When PushPop has run to its Halt with R0 = 5   *)
(* and R1 = 9 at every fetch, R2 = 9 and R3 = 5.                           *)
(***************************************************************************)
C33_PushPopLifo ==
    /\ [][ /\ (StepTaken /\ FetchedOp = "Push" /\ Decodes) =>
                 /\ result'.tag = "Ok"
                 /\ stack' = Append(stack, Value(OperandWord(1)))
           /\ (StepTaken /\ FetchedOp = "Pop" /\ Decodes /\ OperandWord(1) >= 32768
                 /\ stack # << >>) =>
                 /\ result'.tag = "Ok"
                 /\ registers' = [ registers EXCEPT ![OperandWord(1) - 32768] =
                                                      stack[Len(stack)] % 32768 ]
                 /\ stack' = SubSeq(stack, 1, Len(stack) - 1)
           /\ (StepTaken /\ FetchedOp = "Pop" /\ Decodes /\ OperandWord(1) >= 32768
                 /\ stack = << >>) =>
                 /\ result'.tag = "ErrStackEmpty"
                 /\ UNCHANGED << registers, stack >> ]_vars
    /\ []( ( /\ memory = PushPop
             /\ result.tag = "ErrFinished"
             /\ Len(Emitted) = 5
             /\ \A i \in 1..Len(Emitted) :
                   /\ Emitted[i].registers.registers[0] = 5
                   /\ Emitted[i].registers.registers[1] = 9 )
           => (registers[2] = 9 /\ registers[3] = 5) )

\* PushPop has halted after five steps that all saw R0 = 5 and R1 = 9
C33_Witness ==
    /\ memory = PushPop
    /\ result.tag = "ErrFinished"
    /\ Len(Emitted) = 5
    /\ \A i \in 1..Len(Emitted) :
          /\ Emitted[i].registers.registers[0] = 5
          /\ Emitted[i].registers.registers[1] = 9
    /\ registers[2] = 9
    /\ registers[3] = 5

(***************************************************************************)
(* The arithmetic specification: one instruction of Add .. Not into R0     *)
(* with literal operands at and between the ends of 0..=0x7FFF, run once.  *)
(***************************************************************************)
ArithValues == { 0, 1, 3, 256, 21845, 32767 }

ArithPrograms ==
    { OneInstruction(op, R0, b, c) : op \in 9..14, b \in ArithValues, c \in ArithValues }

ArithInit == (\E program \in ArithPrograms : InitVm(program)) /\ InitRest

ArithNext ==
    \/ RecvMessage
    \/ PollNone
    \/ RunStep
    \/ RunWriteState

ArithSpec == ArithInit /\ [][ArithNext]_vars

\* bit i of x
Bit(x, i) == (x \div (2 ^ i)) % 2

(***************************************************************************)
(* C34.  With operand values b and c in 0..=0x7FFF and a register as       *)
(* destination, Add stores (b + c) mod 32768, Mult stores (b * c) mod      *)
(* 32768, Mod stores b mod c when c is not 0, And and Or store the bitwise *)
(* result, Not stores b with its 15 bits inverted, and whatever is stored  *)
(* is at most 0x7FFF.                                                      *)
(***************************************************************************)
C34_Arithmetic ==
    [][ ( /\ StepTaken
          /\ FetchedOp \in { "Add", "Mult", "Mod", "And", "Or", "Not" }
          /\ Decodes
          /\ OperandWord(1) >= 32768
          /\ \A i \in 2..operands(FetchedOp) : Value(OperandWord(i)) <= 32767
          /\ FetchedOp = "Mod" => Value(OperandWord(3)) # 0 ) =>
          LET a == OperandWord(1) - 32768
              b == Value(OperandWord(2))
              c == Value(OperandWord(3))
              r == registers'[a]
          IN  /\ result'.tag = "Ok"
              /\ \A x \in 0..7 : x # a => registers'[x] = registers[x]
              /\ r <= 32767
              /\ CASE FetchedOp = "Add" -> r = (b + c) % 32768
                   [] FetchedOp = "Mult" -> r = (b * c) % 32768
                   [] FetchedOp = "Mod" -> r = b % c
                   [] FetchedOp = "And" -> \A i \in 0..14 : Bit(r, i) = Bit(b, i) * Bit(c, i)
                   [] FetchedOp = "Or" ->
                        \A i \in 0..14 : Bit(r, i) = IF Bit(b, i) + Bit(c, i) > 0 THEN 1 ELSE 0
                   [] OTHER -> \A i \in 0..14 : Bit(r, i) = 1 - Bit(b, i) ]_vars

\* Mult R0 0x7FFF 0x7FFF has stored 1
C34_Witness ==
    /\ memory = OneInstruction(10, R0, 32767, 32767)
    /\ result.tag = "Ok"
    /\ result.op = "Mult"
    /\ registers[0] = 1

\* parse_program_and_save runs on one thread that nothing holds up
AnalysisLiveSpec == AnalysisSpec /\ WF_vars(AnalysisNext)

\* the discovery loop has been left: by the end of the work list or by a panic
DiscoveryOver == sa_at \in { "emit", "done", "panic" }

(***************************************************************************)
(* C35.  The discovery pass terminates for every program and every choice  *)
(* of extra entry points: a candidate whose address already starts a block *)
(* is dropped without a walk, a walk that closes adds one block, whose     *)
(* start no block had before, and so no two blocks start at one address.   *)
(***************************************************************************)
C35_DiscoveryTerminates ==
    /\ <>DiscoveryOver
    /\ [][ /\ (sa_at = "pop" /\ jump_targets # << >>
                 /\ \E i \in 1..Len(exec_blocks) :
                       exec_blocks[i].start = jump_targets[Len(jump_targets)])
                 => (sa_at' = "pop" /\ exec_blocks' = exec_blocks)
           /\ (sa_at = "walk" /\ exec_blocks' # exec_blocks)
                 => /\ Len(exec_blocks') = Len(exec_blocks) + 1
                    /\ SubSeq(exec_blocks', 1, Len(exec_blocks)) = exec_blocks
                    /\ \A i \in 1..Len(exec_blocks) :
                          exec_blocks[i].start # exec_blocks'[Len(exec_blocks')].start ]_vars
    /\ []( sa_at \in { "pop", "walk" } =>
             \A i, j \in 1..Len(exec_blocks) :
                 i # j => exec_blocks[i].start # exec_blocks[j].start )

\* a candidate has just been dropped: its address starts a block that is
\* not the one closed last
C35_Witness ==
    /\ sa_at = "pop"
    /\ exec_blocks # << >>
    /\ exec_blocks[Len(exec_blocks)].start # block_start
    /\ \E i \in 1..Len(exec_blocks) : exec_blocks[i].start = block_start

(***************************************************************************)
(* C36.  A step never reads memory outside the current memory length while *)
(* it fetches the opcode and decodes the operands: a step whose program    *)
(* counter, or whose last operand, lies at or past the end of memory       *)
(* completes or returns a RuntimeError value, it does not abort the VM     *)
(* thread.                                                                 *)
(***************************************************************************)
ReadsPastMemory ==
    \/ program_counter >= Len(memory)
    \/ program_counter + operands(FetchedOp) >= Len(memory)

C36_DecodeStaysInMemory ==
    [][ (vm_at = "exec" /\ nsteps < MaxRunSteps /\ ReadsPastMemory) => vm_at' # "panicked" ]_vars

(***************************************************************************)
(* The variant specification: the UI sends one message of every variant of *)
(* VmInstruction, paths being ones that can be opened, to a VM running     *)
(* Noops.                                                                  *)
(***************************************************************************)
VariantMessages ==
    { Msg("Run", 0, 0), Msg("Pause", 0, 0), Msg("Toggle", 0, 0), Msg("SingleStep", 0, 0),
      Msg("RunForSteps", 2, 0), Msg("RunUntilAddress", 1, 0),
      Msg("SetCommandDelay", 5, 0), Msg("SetCommandDelay", 0, 1),
      Msg("Terminate", 0, 0), Msg("SetProgramCounter", 2, 0), Msg("SetRegister", 0, 5),
      Msg("SaveMemory", 1, 0), Msg("TraceOperations", 1, 0), Msg("TraceStop", 0, 0) }

VariantWriteState == \E m \in VariantMessages : write_state(m)

VariantInit == InitVm(Noops) /\ InitRest

VariantNext ==
    \/ RecvMessage
    \/ PollNone
    \/ RunStep
    \/ VariantWriteState

VariantSpec == VariantInit /\ [][VariantNext]_vars

(***************************************************************************)
(* C39.  Every control message variant the VM endpoint can receive, Toggle *)
(* included, is applied without aborting the VM loop: after the message    *)
(* the controller is in one of its run-states and polls again or goes on   *)
(* to the step, and only Terminate leaves the loop.                        *)
(***************************************************************************)
Received == vm_at = "poll" /\ state_incoming # << >> /\ state_incoming' = Tail(state_incoming)

C39_EveryVariantApplied ==
    [][ Received =>
          /\ vm_at' # "panicked"
          /\ run_state'.tag \in { "Running", "Paused", "PauseAfterSteps",
                                  "PauseAfterAddress", "Terminated" }
          /\ (vm_at' = "exited" => Head(state_incoming).type = "Terminate") ]_vars

(***************************************************************************)
(* The fair input specification: the VM thread always takes its next step, *)
(* and the UI thread answers a raised need_input flag: it opens the field, *)
(* sends one string and lowers the flag.  The control messages of the UI   *)
(* are under no fairness.                                                  *)
(***************************************************************************)
InputVmThread ==
    \/ RecvMessage
    \/ PollNone
    \/ InputStep
    \/ write_output
    \/ ReadInputClear
    \/ ReadInputRaise
    \/ ReadInputRecv
    \/ ReadInputExtend

InputUiAnswers ==
    \/ UiOpenField
    \/ UiWriteInput
    \/ write_input_lower

InputLiveSpec == InputSpec /\ WF_vars(InputVmThread) /\ WF_vars(InputUiAnswers)

(***************************************************************************)
(* C37.  Input requests never deadlock: when the UI answers every          *)
(* observation of need_input = true by sending one string, a VM blocked in *)
(* the receive of read_input after an InputEmpty stall eventually receives *)
(* a string and resumes, in every interleaving of write_input with         *)
(* read_input, two In stalls back to back included.  The stall is one the  *)
(* UI can still answer with a string of its own.                           *)
(***************************************************************************)
C37_InputNeverDeadlocks ==
    (vm_at = "recv" /\ ninputs < MaxInputs) ~> (vm_at = "extend")

(***************************************************************************)
(* The terminate specification: the UI starts the program, answers input   *)
(* requests, and at some moment sends Terminate; from then on it sends     *)
(* nothing, neither a control message nor an input string.  The VM thread  *)
(* always takes its next step.                                             *)
(***************************************************************************)
TerminateQueued == \E i \in 1..Len(state_incoming) : state_incoming[i].type = "Terminate"

TerminateWriteState == ~TerminateQueued /\ write_state(Msg("Terminate", 0, 0))

TerminateUiAnswers ==
    /\ ~TerminateQueued
    /\ (UiOpenField \/ UiWriteInput)

TerminateNext ==
    \/ InputVmThread
    \/ RunWriteState
    \/ TerminateWriteState
    \/ TerminateUiAnswers
    \/ write_input_lower

TerminateSpec == InputInit /\ [][TerminateNext]_vars

TerminateLiveSpec == TerminateSpec /\ WF_vars(InputVmThread)

(***************************************************************************)
(* C38.  Terminate is eventually honoured in every controller situation:   *)
(* after the UI has sent Terminate, and sends nothing else, the VM loop    *)
(* eventually exits, also when the VM is at that moment blocked in the     *)
(* input receive after an InputEmpty stall.  A run cut short by the bound  *)
(* on the number of steps is left out.                                     *)
(***************************************************************************)
StepsCut == vm_at = "exec" /\ nsteps >= MaxRunSteps

C38_TerminateHonoured == TerminateQueued ~> (vm_at = "exited" \/ StepsCut)

(***************************************************************************)
(* C40.  The disassembler never reads a word outside the program while it  *)
(* walks or while it tests the word after a closed block: for every        *)
(* program, one whose last word is Halt, Ret or the operand of a Jmp       *)
(* included, discovery and listing complete without an out-of-range        *)
(* access.  The analysis starts at address 0 alone, and the build is one    *)
(* without overflow checks, so that an abort is an out-of-range index.     *)
(***************************************************************************)
C40_AnalysisStaysInProgram ==
    (sa_program # << >> /\ additional_starts = << >> /\ ~overflow_checks) => sa_at # "panic"

====
